---- MODULE Spec2Model ----
(***************************************************************************)
(* Remote media-processing core of the teacher-video service:              *)
(*   RobustCOSUploader   (app/services/robust_cos_uploader.py)             *)
(*   TencentVideoService (app/services/tencent_video_service.py)           *)
(*   VideoProcessorService.process_teacher_video_background                *)
(*                        (app/services/video_processor.py)                *)
(*   VideoCompositorService.composite_with_background                      *)
(*                        (app/services/video_compositor.py)               *)
(* Every network call is one step; the response to it is chosen by the     *)
(* environment.  Each operation keeps its local variables in one record.   *)
(* Spec follows one operation or one job; SpecSign calls the two request   *)
(* signers at any clock value; SpecTable follows the job-progress table    *)
(* with several jobs and a reader; SpecConc follows how many background    *)
(* tasks run at once; SpecGeom follows the geometry of one compositing     *)
(* call; SpecRound follows an upload and the download of the same key;     *)
(* SpecPoll and SpecCancel follow one status poll; SpecKeys follows the    *)
(* object and file names of concurrent jobs; SpecBatch follows one batch   *)
(* of the batch routes (app/api/routes/batch.py); SpecLock follows the     *)
(* tasks of one RedisAsyncLock key (app/utils/redis_lock.py).              *)
(***************************************************************************)
EXTENDS Integers, Sequences, FiniteSets, TLC

(***************************************************************************)
(* Program constants                                                       *)
(***************************************************************************)
max_retries == 5
retry_delays == <<1, 2, 4, 8, 16>>
timeout_configs == <<30, 60, 120, 180, 300>>
\* self.domains, in list order
domains == <<"tencentcos.cn", "myqcloud.com">>
\* timeout of the PUT issued by _chunk_upload for a file above chunk_size
ChunkUploadTimeout == 600

Min(a, b) == IF a <= b THEN a ELSE b

(***************************************************************************)
(* Environment: responses to one HTTP request.  exc = "none" means a       *)
(* response with the given status arrived, otherwise requests raised.      *)
(***************************************************************************)
HttpResp(s) == [exc |-> "none", status |-> s]
ExcResp(e) == [exc |-> e, status |-> 0]
PutStatuses == {200, 201, 204, 403, 404, 500}
PutResponses ==
    {HttpResp(s) : s \in PutStatuses}
        \cup {ExcResp("Timeout"), ExcResp("ConnectionError")}
IsTransient(resp) == resp.exc \in {"Timeout", "ConnectionError"}
IsFatalStatus(resp) == resp.exc = "none" /\ resp.status \in {403, 404}
Is2xx(resp) == resp.exc = "none" /\ resp.status \in 200..299

\* sizes of the local file: at most 100MB, above 100MB, above 5GB
FileSizes == {"small", "large", "huge"}

\* default of the timeout parameter of _wait_for_job_completion (seconds)
DefaultPollTimeout == 300
\* sleep after a Submitted / Running answer, and after any other answer
SleepInProgress == 10
SleepIrregular == 5
\* seconds one status query may take (requests timeout = 30)
QueryDurations == {0, 30}

\* answers to GET /jobs/{job_id}: State of a 200 response ("Unknown" is
\* what the code substitutes for a missing State element, "Cancel" and
\* "Pause" are states the code does not name), a non-200 response, a
\* raised request, a 200 response whose body does not parse.
JobStates == {"Submitted", "Running", "Success", "Failed", "Unknown", "Cancel", "Pause"}
StatusResp(exc, status, state) == [exc |-> exc, status |-> status, state |-> state]
PollResponses ==
    {StatusResp("none", 200, st) : st \in JobStates}
        \cup {StatusResp("none", 500, ""), StatusResp("none", 403, ""),
              StatusResp("Timeout", 0, ""), StatusResp("ParseError", 200, "")}
\* the sequence of answers of the documented polling scenario
ScenarioStates == <<"Submitted", "Running", "Running", "Success">>

GetStatuses == {200, 403, 404, 500}
GetResponses ==
    {HttpResp(st) : st \in GetStatuses}
        \cup {ExcResp("Timeout"), ExcResp("ConnectionError")}

\* largest number of 8192-byte chunks of an object body
MaxChunks == 2
\* the body of the remote object: chunks 1..n
Bodies == {[i \in 1..n |-> i] : n \in 0..MaxChunks}
\* no file at local_path
NoFile == <<"absent">>
\* a file left at local_path by an earlier run
OldFile == <<"old">>

\* largest number of Queue elements in one answer to GET /ai_queue
MaxQueues == 2
\* the empty string _get_queue_id returns for "no queue id"
NoQueueId == 0
\* text of the State, QueueType and Category elements of a listed queue;
\* "" stands for a missing element.  The QueueId of the i-th queue is i.
QueueAttrs ==
    [state : {"Active", "Paused"},
     queueType : {"", "AIProcess", "Transcoding"},
     category : {"", "AIProcess", "Transcoding"}]
QueueLists == UNION {[1..n -> QueueAttrs] : n \in 0..MaxQueues}
\* answers to GET /ai_queue: a 200 response with a queue list, a non-200
\* response, a raised request
ListResp(exc, status, queues) == [exc |-> exc, status |-> status, queues |-> queues]
ListResponses ==
    {ListResp("none", 200, ql) : ql \in QueueLists}
        \cup {ListResp("none", 403, <<>>), ListResp("Timeout", 0, <<>>)}
\* answers to POST /ai_bucket and PUT /ai_queue/{id}
AdminResponses == {HttpResp(200), HttpResp(403), ExcResp("Timeout")}
\* answers to POST /jobs: 200 with or without a JobId, an error response
\* with its Code, a raised request
JobResp(exc, status, hasJobId, code) ==
    [exc |-> exc, status |-> status, hasJobId |-> hasJobId, code |-> code]
SubmitResponses ==
    {JobResp("none", 200, TRUE, ""), JobResp("none", 200, FALSE, ""),
     JobResp("none", 400, FALSE, "AIBucketUnBinded"),
     JobResp("none", 400, FALSE, "InvalidArgument"),
     JobResp("none", 403, FALSE, "Unknown"),
     JobResp("Timeout", 0, FALSE, "")}

\* the remote steps of _process_with_ci_api in program order, preceded by
\* the background upload of remove_background when a background file came
\* with the job
CiSteps == <<"upload", "submit", "poll", "download", "normalize">>
PipelineOrder(hasBackground) ==
    IF hasBackground THEN <<"bg_upload">> \o CiSteps ELSE CiSteps
\* job_progress has no entry for the job
NoRecord == [status |-> "none", progress |-> 0, current_step |-> "",
             error |-> <<>>, hasResult |-> FALSE]

\* the operation that is invoked: one of the transfer / job-client
\* operations on its own, or the processing of one uploaded video
Entries == {"upload", "poll", "download", "submit", "job"}

VARIABLES entry, up, poll, dl, local_file, rq, sub, job, job_progress,
          clock, prevSign, lastSign,
          table, tjob, lastWriter, lastOp, held,
          cjob,
          geo,
          kjob,
          batch,
          rlock

\* the variables of the transfer, queue, submission and job operations
pipeVars == <<entry, up, poll, dl, local_file, rq, sub, job, job_progress>>
\* the clock and the last two calls of the request signers
signVars == <<clock, prevSign, lastSign>>
\* the job-progress table, each job's position, the job and kind of the
\* last step, and what a reader of the table holds
tableVars == <<table, tjob, lastWriter, lastOp, held>>
\* where each upload-and-process request and its background task stand
concVars == <<cjob>>
\* one call of VideoCompositorService.composite_with_background
geomVars == <<geo>>
\* the object keys and the output path each background removal works with
keyVars == <<kjob>>
\* the batch job of the batch routes and its upload directory
batchVars == <<batch>>
\* the Redis key of the lock and the tasks that use it
lockVars == <<rlock>>
\* what the operations of the pipeline do not touch
sideVars == <<signVars, tableVars, concVars, geomVars, keyVars, batchVars, lockVars>>

vars == <<pipeVars, signVars, tableVars, concVars, geomVars, keyVars, batchVars, lockVars>>

(***************************************************************************)
(* RobustCOSUploader.upload_file                                           *)
(***************************************************************************)
UpIdle ==
    [pc |-> "idle", size |-> "small", available_domains |-> <<>>,
     retry_count |-> 0, domain_index |-> 1, puts |-> 0, sleeps |-> 0,
     slept |-> 0, timeout |-> 0, ret |-> "none", tried |-> <<>>,
     fatalAt |-> 0, sleepsAtFatal |-> 0, firstStatus |-> 0,
     allTransient |-> TRUE, signs |-> 0, tokenUses |-> 0, okAt |-> 0,
     sleepsAtOk |-> 0, file |-> <<>>, stored |-> NoFile]

SelectSeq2(s, keep) ==
    LET F[i \in 0..Len(s)] ==
            IF i = 0 THEN <<>>
            ELSE IF i \in keep THEN Append(F[i - 1], s[i]) ELSE F[i - 1]
    IN F[Len(s)]

\* _get_optimal_domains: the reachable domains in list order, the whole
\* list when none is reachable.  reach = indexes that pass the probe.
_get_optimal_domains(reach) ==
    IF SelectSeq2(domains, reach) = <<>> THEN domains
    ELSE SelectSeq2(domains, reach)

\* what the handling of one PUT response does to the attempt loops:
\* "return" leaves upload_file with True, "continue" goes on with the next
\* domain.  The PermissionError / ValueError raised for 403 / 404 are raised
\* inside the try block and caught by its `except Exception` clause.
PutOutcome(resp) ==
    IF resp.exc = "none" /\ resp.status \in {200, 201} THEN "return"
    ELSE "continue"

\* timeout of the PUT of round retry_count
PutTimeout(size, retry_count) ==
    IF size = "large" THEN ChunkUploadTimeout
    ELSE timeout_configs[Min(retry_count, Len(timeout_configs) - 1) + 1]

\* the round that just ended is followed by a backoff sleep
SleepsAfterRound(retry_count) == retry_count < max_retries - 1

\* one round too many: the loop bound off by one
HasNextRound_offByOne(retry_count) == retry_count + 1 <= max_retries

\* `for retry_count in range(self.max_retries)` has another iteration
HasNextRound(retry_count) == retry_count + 1 < max_retries

\* the state at the end of round up.retry_count, without its sleep
NextRoundOrFail(u) ==
    IF HasNextRound(u.retry_count)
    THEN [u EXCEPT !.retry_count = @ + 1, !.domain_index = 1,
                   !.tried = <<>>, !.pc = "attempt"]
    ELSE [u EXCEPT !.pc = "returned", !.ret = "false"]

\* upload_file up to the first attempt: file checks and domain probing
upload_file_begin ==
    /\ up.pc = "called"
    /\ \E exists \in BOOLEAN, reach \in SUBSET (1..Len(domains)) :
         IF ~exists \/ up.size = "huge"
         THEN up' = [up EXCEPT !.pc = "raised", !.ret = "raised"]
         ELSE up' = [up EXCEPT !.pc = "attempt",
                               !.available_domains = _get_optimal_domains(reach),
                               !.retry_count = 0, !.domain_index = 1]
    /\ UNCHANGED <<sideVars, entry, poll, dl, local_file, rq, sub, job, job_progress>>

upload_attempt ==
    /\ up.pc = "attempt"
    /\ \E resp \in PutResponses :
         LET n == Len(up.available_domains)
             seen == [up EXCEPT
                        !.puts = @ + 1,
                        !.signs = @ + 1,
                        !.tokenUses = 1,
                        !.timeout = PutTimeout(up.size, up.retry_count),
                        !.tried = Append(@, up.available_domains[up.domain_index]),
                        !.firstStatus = IF up.puts = 0 THEN resp.status ELSE @,
                        !.allTransient = @ /\ IsTransient(resp),
                        !.fatalAt = IF @ = 0 /\ IsFatalStatus(resp)
                                    THEN up.puts + 1 ELSE @,
                        !.sleepsAtFatal = IF up.fatalAt = 0 /\ IsFatalStatus(resp)
                                          THEN up.sleeps ELSE @,
                        !.okAt = IF @ = 0 /\ Is2xx(resp) THEN up.puts + 1 ELSE @,
                        !.sleepsAtOk = IF up.okAt = 0 /\ Is2xx(resp)
                                       THEN up.sleeps ELSE @,
                        !.stored = IF Is2xx(resp) THEN up.file ELSE @]
         IN  IF PutOutcome(resp) = "return"
             THEN up' = [seen EXCEPT !.pc = "returned", !.ret = "true"]
             ELSE IF up.domain_index < n
             THEN up' = [seen EXCEPT !.domain_index = @ + 1]
             ELSE IF SleepsAfterRound(up.retry_count)
             THEN up' = [seen EXCEPT !.pc = "sleep"]
             ELSE up' = NextRoundOrFail(seen)
    /\ UNCHANGED <<sideVars, entry, poll, dl, local_file, rq, sub, job, job_progress>>

\* asyncio.sleep(delay) between two rounds, then the next round starts
upload_sleep ==
    /\ up.pc = "sleep"
    /\ up' = NextRoundOrFail(
                [up EXCEPT
                   !.sleeps = @ + 1,
                   !.slept = @ + retry_delays[Min(up.retry_count, Len(retry_delays) - 1) + 1]])
    /\ UNCHANGED <<sideVars, entry, poll, dl, local_file, rq, sub, job, job_progress>>

(***************************************************************************)
(* TencentVideoService._wait_for_job_completion                            *)
(***************************************************************************)
PollIdle ==
    [pc |-> "idle", budget |-> DefaultPollTimeout, elapsed |-> 0,
     queries |-> 0, sleeps |-> 0, ret |-> "none", cause |-> "none",
     last |-> "none", termAt |-> 0, termState |-> "none", match |-> 0,
     allUnknown |-> TRUE, signs |-> 0, tokenUses |-> 0, cancelAt |-> -1]

\* a 200 answer carrying a State the code has a branch for
IsTerminalResp(resp) ==
    resp.exc = "none" /\ resp.status = 200 /\ resp.state \in {"Success", "Failed"}
IsInProgressResp(resp) ==
    resp.exc = "none" /\ resp.status = 200 /\ resp.state \in {"Submitted", "Running"}
IsIrregularResp(resp) == ~IsTerminalResp(resp) /\ ~IsInProgressResp(resp)

\* a Success answer that only goes on polling
PollOutcome_ignoresSuccess(resp) ==
    IF resp.exc = "none" /\ resp.status = 200 /\ resp.state = "Failed" THEN "Failed"
    ELSE IF IsInProgressResp(resp) \/ IsTerminalResp(resp) THEN "wait10"
    ELSE "wait5"

\* an exception of the query that ends the loop
PollOutcome_abortsOnException(resp) ==
    IF resp.exc # "none" THEN "Failed"
    ELSE IF resp.status = 200 /\ resp.state = "Success" THEN "Success"
    ELSE IF resp.status = 200 /\ resp.state = "Failed" THEN "Failed"
    ELSE IF resp.status = 200 /\ resp.state \in {"Submitted", "Running"} THEN "wait10"
    ELSE "wait5"

\* the branch one loop iteration takes on the answer to its query
PollOutcome(resp) ==
    IF resp.exc # "none" THEN "wait5"
    ELSE IF resp.status # 200 THEN "wait5"
    ELSE IF resp.state = "Success" THEN "Success"
    ELSE IF resp.state = "Failed" THEN "Failed"
    ELSE IF resp.state \in {"Submitted", "Running"} THEN "wait10"
    ELSE "wait5"

\* the value _wait_for_job_completion returns for each way the loop ends
PollReturnValue(cause) == IF cause = "Success" THEN "true" ELSE "false"

\* how far the answers so far follow ScenarioStates (-1: they do not)
ScenarioStep(match, resp) ==
    IF match >= 0 /\ match < Len(ScenarioStates)
       /\ resp.exc = "none" /\ resp.status = 200
       /\ resp.state = ScenarioStates[match + 1]
    THEN match + 1 ELSE -1

\* a loop that goes to the next query at once after an irregular answer
SleepAfter_onlyInProgress(out) == IF out = "wait10" THEN SleepInProgress ELSE 0

\* the asyncio.sleep of the branch taken: 10 s after Submitted / Running,
\* 5 s after any other answer that does not end the call
SleepAfter(out) == IF out = "wait10" THEN SleepInProgress ELSE SleepIrregular

\* a loop that still runs when the whole budget has elapsed
LoopCondition_inclusive(elapsed, timeout) == elapsed <= timeout

\* while time.time() - start_time < timeout
LoopCondition(elapsed, timeout) == elapsed < timeout

\* one iteration of the while loop whose condition holds: the query, the
\* handling of its answer and the sleep of the branch taken
poll_iteration ==
    /\ poll.pc = "loop"
    /\ LoopCondition(poll.elapsed, poll.budget)
    /\ \E resp \in PollResponses, d \in QueryDurations :
         LET seen == [poll EXCEPT
                        !.queries = @ + 1,
                        !.signs = @ + 1,
                        !.tokenUses = 1,
                        !.last = IF IsIrregularResp(resp) THEN "irregular"
                                 ELSE resp.state,
                        !.termAt = IF @ = 0 /\ IsTerminalResp(resp)
                                   THEN poll.queries + 1 ELSE @,
                        !.termState = IF poll.termAt = 0 /\ IsTerminalResp(resp)
                                      THEN resp.state ELSE @,
                        !.match = ScenarioStep(@, resp),
                        !.allUnknown = @ /\ resp.exc = "none" /\ resp.status = 200
                                         /\ resp.state = "Unknown"]
             out == PollOutcome(resp)
         IN  IF out \in {"Success", "Failed"}
             THEN poll' = [seen EXCEPT !.elapsed = @ + d, !.pc = "returned",
                                       !.cause = out, !.ret = PollReturnValue(out)]
             ELSE poll' = [seen EXCEPT
                             !.sleeps = @ + 1,
                             !.elapsed = @ + d + SleepAfter(out)]
    /\ UNCHANGED <<sideVars, entry, up, dl, local_file, rq, sub, job, job_progress>>

\* the while condition fails: the budget elapsed
poll_timeout ==
    /\ poll.pc = "loop"
    /\ ~LoopCondition(poll.elapsed, poll.budget)
    /\ poll' = [poll EXCEPT !.pc = "returned", !.cause = "Timeout",
                            !.ret = PollReturnValue("Timeout")]
    /\ UNCHANGED <<sideVars, entry, up, dl, local_file, rq, sub, job, job_progress>>

\* somebody asks for the job to be cancelled while the call is in its loop;
\* cancelAt is the number of queries made by then.  The call has the
\* parameters job_id and timeout only and reads no attribute or table
\* entry inside the loop, so the request changes nothing else.
poll_cancel_requested ==
    /\ poll.pc = "loop"
    /\ poll.cancelAt = -1
    /\ poll' = [poll EXCEPT !.cancelAt = poll.queries]
    /\ UNCHANGED <<sideVars, entry, up, dl, local_file, rq, sub, job, job_progress>>

(***************************************************************************)
(* RobustCOSUploader.download_file                                         *)
(***************************************************************************)
DlIdle ==
    [pc |-> "idle", available_domains |-> <<>>, domain_index |-> 1,
     gets |-> 0, ret |-> "none", body |-> <<>>, before |-> NoFile,
     broken |-> FALSE, fatalAt |-> 0]

\* a download that counts a stream that broke as a success
NextDomainOrFail_brokenIsSuccess(d) ==
    IF d.domain_index < Len(d.available_domains)
    THEN [d EXCEPT !.domain_index = @ + 1, !.pc = "get"]
    ELSE [d EXCEPT !.pc = "returned",
                   !.ret = IF d.broken THEN "true" ELSE "false"]

\* the loop over the domains goes on, or download_file returns False
NextDomainOrFail(d) ==
    IF d.domain_index < Len(d.available_domains)
    THEN [d EXCEPT !.domain_index = @ + 1, !.pc = "get"]
    ELSE [d EXCEPT !.pc = "returned", !.ret = "false"]

\* download_file up to the first GET: domain probing
download_file_begin ==
    /\ dl.pc = "called"
    /\ \E reach \in SUBSET (1..Len(domains)) :
         dl' = [dl EXCEPT !.pc = "get",
                          !.available_domains = _get_optimal_domains(reach),
                          !.domain_index = 1]
    /\ UNCHANGED <<sideVars, entry, up, poll, local_file, rq, sub, job, job_progress>>

\* requests.get(..., stream=True) on the current domain; a 200 response
\* opens local_path for writing, which truncates it
download_get ==
    /\ dl.pc = "get"
    /\ \E resp \in GetResponses :
         IF resp.exc = "none" /\ resp.status = 200
         THEN /\ dl' = [dl EXCEPT !.gets = @ + 1, !.pc = "body"]
              /\ local_file' = <<>>
         ELSE /\ dl' = NextDomainOrFail(
                        [dl EXCEPT !.gets = @ + 1,
                                   !.fatalAt = IF @ = 0 /\ IsFatalStatus(resp)
                                               THEN dl.gets + 1 ELSE @])
              /\ UNCHANGED local_file
    /\ UNCHANGED <<sideVars, entry, up, poll, rq, sub, job, job_progress>>

\* f.write(chunk) of the next chunk of the body
download_chunk ==
    /\ dl.pc = "body"
    /\ Len(local_file) < Len(dl.body)
    /\ local_file' = Append(local_file, dl.body[Len(local_file) + 1])
    /\ UNCHANGED <<sideVars, entry, up, poll, dl, rq, sub, job, job_progress>>

\* the stream raises before the next chunk arrives: the except clause of
\* the domain loop takes over
download_stream_error ==
    /\ dl.pc = "body"
    /\ Len(local_file) < Len(dl.body)
    /\ dl' = NextDomainOrFail([dl EXCEPT !.broken = TRUE])
    /\ UNCHANGED <<sideVars, entry, up, poll, local_file, rq, sub, job, job_progress>>

\* the body is exhausted: the file is closed and download_file returns True
download_finish ==
    /\ dl.pc = "body"
    /\ Len(local_file) = Len(dl.body)
    /\ dl' = [dl EXCEPT !.pc = "returned", !.ret = "true"]
    /\ UNCHANGED <<sideVars, entry, up, poll, local_file, rq, sub, job, job_progress>>

(***************************************************************************)
(* TencentVideoService._get_queue_id, _activate_ai_queue, _open_ai_bucket  *)
(***************************************************************************)
RqIdle ==
    [pc |-> "idle", gets |-> 0, opens |-> 0, activations |-> 0,
     listing |-> 0, queues |-> <<>>, ai_queue_id |-> NoQueueId,
     activated |-> "none", openStatus |-> -1, signs |-> 0, tokenUses |-> 0,
     ret |-> NoQueueId]

\* any HTTP answer to POST /ai_bucket counts as provisioned
_open_ai_bucket_anyAnswer(resp) == resp.exc = "none"

\* _open_ai_bucket(): True for a 200 answer to POST /ai_bucket, False for
\* any other answer and for an exception
_open_ai_bucket(resp) == resp.exc = "none" /\ resp.status = 200

\* queue_type of the first scan: `queue.find('QueueType') or
\* queue.find('Category')` yields the Category element, because an Element
\* without children is false; a missing element gives 'Unknown'
FirstScanType(q) == IF q.category # "" THEN q.category ELSE "Unknown"

\* qtype of the scan after provisioning:
\* `q.findtext('QueueType') or q.findtext('Category')`
SecondScanType(q) == IF q.queueType # "" THEN q.queueType ELSE q.category

\* the for loop over the listed queues of the first scan: ai_queue_id,
\* any_active_queue_id, and the queue to activate, when the loop ends
FirstScan(qs) ==
    LET start == [ai |-> NoQueueId, any |-> NoQueueId, activate |-> NoQueueId,
                  stop |-> FALSE]
        F[i \in 0..Len(qs)] ==
            IF i = 0 THEN start
            ELSE IF F[i - 1].stop THEN F[i - 1]
            ELSE IF qs[i].state = "Paused" /\ FirstScanType(qs[i]) = "AIProcess"
            THEN [F[i - 1] EXCEPT !.ai = i, !.activate = i, !.stop = TRUE]
            ELSE IF qs[i].state = "Active"
            THEN [F[i - 1] EXCEPT
                    !.any = IF @ = NoQueueId THEN i ELSE @,
                    !.ai = IF FirstScanType(qs[i]) = "AIProcess" THEN i ELSE @,
                    !.stop = FirstScanType(qs[i]) = "AIProcess"]
            ELSE F[i - 1]
    IN F[Len(qs)]

\* the queue the scan after provisioning returns: the first one whose type
\* is AIProcess, whatever its state (NoQueueId: none)
SecondScan(qs) ==
    IF \E i \in 1..Len(qs) : SecondScanType(qs[i]) = "AIProcess"
    THEN CHOOSE i \in 1..Len(qs) :
            /\ SecondScanType(qs[i]) = "AIProcess"
            /\ \A j \in 1..(i - 1) : SecondScanType(qs[j]) # "AIProcess"
    ELSE NoQueueId

RqReturn(r, id) == [r EXCEPT !.pc = "returned", !.ret = id]

\* the authorization header is generated, then GET /ai_queue is sent with
\* it and its answer scanned
queue_list ==
    /\ rq.pc = "get"
    /\ \E resp \in ListResponses :
         LET r == [rq EXCEPT !.gets = @ + 1, !.signs = @ + 1, !.tokenUses = 1]
             scan == FirstScan(resp.queues)
         IN  IF resp.exc # "none" \/ resp.status # 200
             THEN rq' = RqReturn(r, NoQueueId)
             ELSE LET l == [r EXCEPT !.listing = 1, !.queues = resp.queues,
                                     !.ai_queue_id = scan.ai]
                  IN  IF scan.activate # NoQueueId
                      THEN rq' = [l EXCEPT !.pc = "activate"]
                      ELSE IF scan.ai # NoQueueId
                      THEN rq' = RqReturn(l, scan.ai)
                      ELSE IF scan.any # NoQueueId
                      THEN rq' = RqReturn(l, NoQueueId)
                      ELSE rq' = [l EXCEPT !.pc = "open"]
    /\ UNCHANGED <<sideVars, entry, up, poll, dl, local_file, sub, job, job_progress>>

\* _activate_ai_queue(ai_queue_id): PUT /ai_queue/{id}; its result is not
\* looked at, the id is returned
queue_activate ==
    /\ rq.pc = "activate"
    /\ \E resp \in AdminResponses :
         rq' = RqReturn([rq EXCEPT
                           !.activations = @ + 1,
                           !.activated = IF resp.exc = "none" /\ resp.status = 200
                                         THEN "ok" ELSE "failed"],
                        rq.ai_queue_id)
    /\ UNCHANGED <<sideVars, entry, up, poll, dl, local_file, sub, job, job_progress>>

\* no queue was found: _open_ai_bucket(), POST /ai_bucket
queue_open ==
    /\ rq.pc = "open"
    /\ \E resp \in AdminResponses :
         LET r == [rq EXCEPT !.opens = @ + 1, !.openStatus = resp.status]
         IN  IF _open_ai_bucket(resp)
             THEN rq' = [r EXCEPT !.pc = "get2"]
             ELSE rq' = RqReturn(r, NoQueueId)
    /\ UNCHANGED <<sideVars, entry, up, poll, dl, local_file, sub, job, job_progress>>

\* the second GET /ai_queue, 3 s after provisioning, sent with the headers
\* of the first one, and its scan
queue_list_again ==
    /\ rq.pc = "get2"
    /\ \E resp \in ListResponses :
         LET r == [rq EXCEPT !.gets = @ + 1, !.tokenUses = @ + 1]
             qid == SecondScan(resp.queues)
         IN  IF resp.exc # "none" \/ resp.status # 200
             THEN rq' = RqReturn(r, NoQueueId)
             ELSE LET l == [r EXCEPT !.listing = 2, !.queues = resp.queues,
                                     !.ai_queue_id = qid]
                  IN  IF qid = NoQueueId THEN rq' = RqReturn(l, NoQueueId)
                      ELSE IF resp.queues[qid].state = "Paused"
                      THEN rq' = [l EXCEPT !.pc = "activate"]
                      ELSE rq' = RqReturn(l, qid)
    /\ UNCHANGED <<sideVars, entry, up, poll, dl, local_file, sub, job, job_progress>>

(***************************************************************************)
(* TencentVideoService._submit_ci_job                                      *)
(***************************************************************************)
SubIdle ==
    [pc |-> "idle", queue_id |-> NoQueueId, posts |-> 0, opens |-> 0,
     queueOpens |-> 0, queueGets |-> 0, sentQueueId |-> <<>>,
     firstCode |-> "none", openOk |-> FALSE, secondJob |-> FALSE,
     queueListing |-> 0, queues |-> <<>>, signs |-> 0, tokenUses |-> 0,
     getsAtPost |-> <<>>, ret |-> "none"]

\* `if queue_id: job_config["QueueId"] = queue_id`: the QueueId element of
\* the job description, <<>> when it has none
QueueIdElement(queue_id) ==
    IF queue_id # NoQueueId THEN <<queue_id>> ELSE <<>>

\* any error answer is followed by provisioning and a second POST
RetriesSubmission_anyError(resp) == resp.exc = "none" /\ resp.status # 200

\* the error answer to the first POST /jobs that is followed by
\* provisioning and a second POST
RetriesSubmission(resp) ==
    resp.exc = "none" /\ resp.status # 200 /\ resp.code = "AIBucketUnBinded"

\* what the error answer or exception of the first POST is recorded as
FirstCode(resp) ==
    IF resp.exc # "none" THEN "exception"
    ELSE IF resp.status = 200 THEN (IF resp.hasJobId THEN "ok" ELSE "NoJobId")
    ELSE resp.code

\* _submit_ci_job starts: queue_id = await self._get_queue_id()
submit_resolve_queue ==
    /\ sub.pc = "called"
    /\ rq.pc = "idle"
    /\ rq' = [RqIdle EXCEPT !.pc = "get"]
    /\ sub' = [sub EXCEPT !.pc = "resolve"]
    /\ UNCHANGED <<sideVars, entry, up, poll, dl, local_file, job, job_progress>>

\* _get_queue_id returned: the job description is built, with a QueueId
\* element only for a non-empty queue id, and signed
submit_build ==
    /\ sub.pc = "resolve"
    /\ rq.pc = "returned"
    /\ sub' = [sub EXCEPT !.pc = "post", !.queue_id = rq.ret,
                          !.queueOpens = rq.opens, !.queueGets = rq.gets,
                          !.queueListing = rq.listing,
                          !.signs = @ + 1, !.tokenUses = 0,
                          !.queues = rq.queues]
    /\ rq' = RqIdle
    /\ UNCHANGED <<sideVars, entry, up, poll, dl, local_file, job, job_progress>>

\* the first POST /jobs
submit_post ==
    /\ sub.pc = "post"
    /\ \E resp \in SubmitResponses :
         LET s1 == [sub EXCEPT !.posts = @ + 1,
                               !.tokenUses = @ + 1,
                               !.sentQueueId = Append(@, QueueIdElement(sub.queue_id)),
                               !.getsAtPost = Append(@, sub.queueGets),
                               !.firstCode = FirstCode(resp)]
         IN  IF resp.exc = "none" /\ resp.status = 200 /\ resp.hasJobId
             THEN sub' = [s1 EXCEPT !.pc = "returned", !.ret = "job"]
             ELSE IF RetriesSubmission(resp)
             THEN sub' = [s1 EXCEPT !.pc = "open"]
             ELSE sub' = [s1 EXCEPT !.pc = "returned", !.ret = "raised"]
    /\ UNCHANGED <<sideVars, entry, up, poll, dl, local_file, rq, job, job_progress>>

\* _open_ai_bucket() after AIBucketUnBinded
submit_open ==
    /\ sub.pc = "open"
    /\ \E resp \in AdminResponses :
         IF _open_ai_bucket(resp)
         THEN sub' = [sub EXCEPT !.opens = @ + 1, !.openOk = TRUE, !.pc = "repost"]
         ELSE sub' = [sub EXCEPT !.opens = @ + 1, !.pc = "returned", !.ret = "raised"]
    /\ UNCHANGED <<sideVars, entry, up, poll, dl, local_file, rq, job, job_progress>>

\* the second POST /jobs, 3 s later, with the body and headers of the first
submit_repost ==
    /\ sub.pc = "repost"
    /\ \E resp \in SubmitResponses :
         LET ok == resp.exc = "none" /\ resp.status = 200 /\ resp.hasJobId
         IN  sub' = [sub EXCEPT !.posts = @ + 1,
                               !.tokenUses = @ + 1,
                               !.sentQueueId = Append(@, QueueIdElement(sub.queue_id)),
                               !.getsAtPost = Append(@, sub.queueGets),
                               !.secondJob = ok,
                               !.pc = "returned",
                               !.ret = IF ok THEN "job" ELSE "raised"]
    /\ UNCHANGED <<sideVars, entry, up, poll, dl, local_file, rq, job, job_progress>>

(***************************************************************************)
(* VideoProcessorService.process_teacher_video_background with             *)
(* TencentVideoService.remove_background and _process_with_ci_api          *)
(***************************************************************************)
JobIdle ==
    [pc |-> "idle", hasBackground |-> FALSE, subtitles |-> FALSE,
     background_url |-> FALSE, started |-> <<>>, completed |-> <<>>,
     failedAt |-> "none", pollCause |-> "none", rbSuccess |-> FALSE,
     rbError |-> "", normalized |-> FALSE, overlayRan |-> FALSE,
     subtitlesRan |-> FALSE, resultBuilt |-> FALSE]

\* str(e) of the exception that ends remove_background at a step
RbErrorText(at) ==
    CASE at = "precheck" -> "video file does not exist"
      [] at = "bg_upload" -> "background upload failed: file upload failed"
      [] at = "upload" -> "file upload failed"
      [] at = "submit" -> "CI API call failed"
      [] at = "poll" -> "CI processing failed"
      [] at = "download" -> "file download failed"

\* the except clause of remove_background: the result dict with
\* success False and error str(e)
RbFail(j, at) ==
    [j EXCEPT !.pc = "rb_returned", !.rbSuccess = FALSE, !.failedAt = at,
              !.rbError = RbErrorText(at)]

\* an update that creates the record it does not find
_update_progress_creates(rec, progress, step) ==
    [status |-> "processing", progress |-> progress, current_step |-> step,
     error |-> <<>>, result |-> <<>>]

\* _update_progress(job_id, progress, step) applied to the record of
\* job_id, NoRecord when the table has none
_update_progress(rec, progress, step) ==
    IF rec = NoRecord THEN rec
    ELSE [rec EXCEPT !.progress = progress, !.current_step = step]

\* a failure update that leaves the status as it is
FailRecord_keepsStatus(rec, msg) ==
    [_update_progress(rec, 0, "failed") EXCEPT !.error = <<"tencent background processing failed", msg>>]

\* the failure branch after remove_background: progress 0, then status
\* failed with the error text
FailRecord(rec, msg) ==
    [_update_progress(rec, 0, "failed") EXCEPT
        !.status = "failed",
        !.error = <<"tencent background processing failed", msg>>]

\* `if not success` fails to hold for whatever poll returned
PollSucceeded_always(p) == p.ret # "none"

\* success of _wait_for_job_completion as _process_with_ci_api sees it
PollSucceeded(p) == p.ret = "true"

\* job_progress[job_id] is initialised
process_start ==
    /\ job.pc = "start"
    /\ job_progress' = [status |-> "processing", progress |-> 0,
                        current_step |-> "start", error |-> <<>>,
                        hasResult |-> FALSE]
    /\ job' = [job EXCEPT !.pc = "validate"]
    /\ UNCHANGED <<sideVars, entry, up, poll, dl, local_file, rq, sub>>

\* the input file and duration checks, then progress 5 and 10
process_validate ==
    /\ job.pc = "validate"
    /\ \E check \in {"ok", "missing", "too_long"} :
         CASE check = "ok" ->
                /\ job_progress' = _update_progress(
                        _update_progress(job_progress, 5, "estimate"),
                        10, "tencent background processing")
                /\ job' = [job EXCEPT !.pc = "rb_begin"]
           [] check = "too_long" ->
                /\ job_progress' = [job_progress EXCEPT
                        !.status = "failed", !.error = <<"video too long">>,
                        !.progress = 0]
                /\ job' = [job EXCEPT !.pc = "done", !.failedAt = "validate"]
           [] check = "missing" ->
                /\ job_progress' = [job_progress EXCEPT
                        !.status = "failed", !.current_step = "failed",
                        !.error = <<"video file does not exist">>]
                /\ job' = [job EXCEPT !.pc = "done", !.failedAt = "validate"]
    /\ UNCHANGED <<sideVars, entry, up, poll, dl, local_file, rq, sub>>

\* remove_background up to its first upload: the upload of the background
\* file when one was given, else the video upload of _process_with_ci_api
remove_background_begin ==
    /\ job.pc = "rb_begin"
    /\ \E exists \in BOOLEAN, size \in FileSizes :
         IF ~exists
         THEN /\ job' = RbFail(job, "precheck")
              /\ UNCHANGED up
         ELSE /\ job' = [job EXCEPT
                           !.pc = IF job.hasBackground THEN "bg_upload" ELSE "upload",
                           !.started = Append(@, IF job.hasBackground
                                                 THEN "bg_upload" ELSE "upload")]
              /\ up' = [UpIdle EXCEPT !.pc = "called", !.size = size]
    /\ UNCHANGED <<sideVars, entry, poll, dl, local_file, rq, sub, job_progress>>

\* upload_background_image: the background upload is over
background_uploaded ==
    /\ job.pc = "bg_upload"
    /\ up.pc \in {"returned", "raised"}
    /\ IF up.ret = "true"
       THEN \E size \in FileSizes :
              /\ job' = [job EXCEPT !.pc = "upload", !.background_url = TRUE,
                                    !.completed = Append(@, "bg_upload"),
                                    !.started = Append(@, "upload")]
              /\ up' = [UpIdle EXCEPT !.pc = "called", !.size = size]
       ELSE /\ job' = RbFail(job, "bg_upload")
            /\ up' = UpIdle
    /\ UNCHANGED <<sideVars, entry, poll, dl, local_file, rq, sub, job_progress>>

\* step 1 of _process_with_ci_api is over; step 2 submits the job
video_uploaded ==
    /\ job.pc = "upload"
    /\ up.pc \in {"returned", "raised"}
    /\ IF up.ret = "true"
       THEN /\ job' = [job EXCEPT !.pc = "submit",
                                  !.completed = Append(@, "upload"),
                                  !.started = Append(@, "submit")]
            /\ sub' = [SubIdle EXCEPT !.pc = "called"]
       ELSE /\ job' = RbFail(job, "upload")
            /\ UNCHANGED sub
    /\ up' = UpIdle
    /\ UNCHANGED <<sideVars, entry, poll, dl, local_file, rq, job_progress>>

\* step 2 is over; step 3 waits for the job
job_submitted ==
    /\ job.pc = "submit"
    /\ sub.pc = "returned"
    /\ IF sub.ret = "job"
       THEN /\ job' = [job EXCEPT !.pc = "poll",
                                  !.completed = Append(@, "submit"),
                                  !.started = Append(@, "poll")]
            /\ poll' = [PollIdle EXCEPT !.pc = "loop"]
       ELSE /\ job' = RbFail(job, "submit")
            /\ UNCHANGED poll
    /\ sub' = SubIdle
    /\ UNCHANGED <<sideVars, entry, up, dl, local_file, rq, job_progress>>

\* step 3 is over; step 4 downloads the output object
job_polled ==
    /\ job.pc = "poll"
    /\ poll.pc = "returned"
    /\ IF PollSucceeded(poll)
       THEN \E body \in Bodies :
              /\ job' = [job EXCEPT !.pc = "download", !.pollCause = poll.cause,
                                    !.completed = Append(@, "poll"),
                                    !.started = Append(@, "download")]
              /\ dl' = [DlIdle EXCEPT !.pc = "called", !.body = body,
                                      !.before = local_file]
       ELSE /\ job' = [RbFail(job, "poll") EXCEPT !.pollCause = poll.cause]
            /\ UNCHANGED dl
    /\ poll' = PollIdle
    /\ UNCHANGED <<sideVars, entry, up, local_file, rq, sub, job_progress>>

\* step 4 is over; step 5 normalizes the downloaded video
output_downloaded ==
    /\ job.pc = "download"
    /\ dl.pc = "returned"
    /\ IF dl.ret = "true"
       THEN job' = [job EXCEPT !.pc = "normalize",
                               !.completed = Append(@, "download"),
                               !.started = Append(@, "normalize")]
       ELSE job' = RbFail(job, "download")
    /\ dl' = DlIdle
    /\ UNCHANGED <<sideVars, entry, up, poll, local_file, rq, sub, job_progress>>

\* _normalize_video_for_subtitles, whose failure is only logged, and the
\* success result of remove_background
normalize_video ==
    /\ job.pc = "normalize"
    /\ \E replaced \in BOOLEAN :
         job' = [job EXCEPT !.pc = "rb_returned", !.rbSuccess = TRUE,
                            !.normalized = replaced,
                            !.completed = Append(@, "normalize")]
    /\ UNCHANGED <<sideVars, entry, up, poll, dl, local_file, rq, sub, job_progress>>

\* remove_background reported failure: the record is marked failed
process_failed ==
    /\ job.pc = "rb_returned"
    /\ ~job.rbSuccess
    /\ job_progress' = FailRecord(job_progress, job.rbError)
    /\ job' = [job EXCEPT !.pc = "done"]
    /\ UNCHANGED <<sideVars, entry, up, poll, dl, local_file, rq, sub>>

\* remove_background succeeded: progress 70 and the name overlay
process_overlay ==
    /\ job.pc = "rb_returned"
    /\ job.rbSuccess
    /\ \E named \in BOOLEAN :
         job' = [job EXCEPT !.pc = "subtitles", !.overlayRan = named]
    /\ job_progress' = _update_progress(job_progress, 70, "name overlay")
    /\ UNCHANGED <<sideVars, entry, up, poll, dl, local_file, rq, sub>>

\* transcription and subtitle burn when subtitles are enabled (their
\* failures are only logged), then progress 90
process_subtitles ==
    /\ job.pc = "subtitles"
    /\ job' = [job EXCEPT !.pc = "finish", !.subtitlesRan = job.subtitles]
    /\ job_progress' = _update_progress(job_progress, 90, "name overlay done")
    /\ UNCHANGED <<sideVars, entry, up, poll, dl, local_file, rq, sub>>

\* progress 90 and 95, the result dict, status completed
process_complete ==
    /\ job.pc = "finish"
    /\ job' = [job EXCEPT !.pc = "done", !.resultBuilt = TRUE]
    /\ job_progress' = [_update_progress(job_progress, 95, "build result") EXCEPT
                           !.status = "completed", !.progress = 100,
                           !.current_step = "completed", !.hasResult = TRUE]
    /\ UNCHANGED <<sideVars, entry, up, poll, dl, local_file, rq, sub>>

(***************************************************************************)
(* Callers                                                                 *)
(***************************************************************************)
call_upload ==
    /\ entry = "upload"
    /\ up.pc = "idle"
    /\ \E size \in FileSizes : up' = [UpIdle EXCEPT !.pc = "called", !.size = size]
    /\ UNCHANGED <<sideVars, entry, poll, dl, local_file, rq, sub, job, job_progress>>

call_poll ==
    /\ entry = "poll"
    /\ poll.pc = "idle"
    /\ poll' = [PollIdle EXCEPT !.pc = "loop"]
    /\ UNCHANGED <<sideVars, entry, up, dl, local_file, rq, sub, job, job_progress>>

call_download ==
    /\ entry = "download"
    /\ dl.pc = "idle"
    /\ \E body \in Bodies :
         dl' = [DlIdle EXCEPT !.pc = "called", !.body = body, !.before = local_file]
    /\ UNCHANGED <<sideVars, entry, up, poll, local_file, rq, sub, job, job_progress>>

call_submit ==
    /\ entry = "submit"
    /\ sub.pc = "idle"
    /\ sub' = [SubIdle EXCEPT !.pc = "called"]
    /\ UNCHANGED <<sideVars, entry, up, poll, dl, local_file, rq, job, job_progress>>

call_job ==
    /\ entry = "job"
    /\ job.pc = "idle"
    /\ \E bg \in BOOLEAN, st \in BOOLEAN :
         job' = [JobIdle EXCEPT !.pc = "start", !.hasBackground = bg,
                                !.subtitles = st]
    /\ UNCHANGED <<sideVars, entry, up, poll, dl, local_file, rq, sub, job_progress>>

(***************************************************************************)
(* upload_file followed by download_file of the same object key.  The PUT  *)
(* sends the bytes of the local file (data=f); the bucket holds them once  *)
(* a PUT was answered 2xx, and a GET answered 200 streams what the bucket  *)
(* holds under the key.                                                    *)
(***************************************************************************)
\* upload_file(file, key) is called on a local file
call_roundtrip_upload ==
    /\ entry = "roundtrip"
    /\ up.pc = "idle"
    /\ \E file \in Bodies :
         up' = [UpIdle EXCEPT !.pc = "called", !.size = "small", !.file = file]
    /\ UNCHANGED <<sideVars, entry, poll, dl, local_file, rq, sub, job, job_progress>>

\* download_file(key, path) is called after upload_file returned True
call_roundtrip_download ==
    /\ entry = "roundtrip"
    /\ up.pc = "returned" /\ up.ret = "true"
    /\ dl.pc = "idle"
    /\ dl' = [DlIdle EXCEPT !.pc = "called", !.body = up.stored,
                            !.before = local_file]
    /\ UNCHANGED <<sideVars, entry, up, poll, local_file, rq, sub, job, job_progress>>

(***************************************************************************)
(* Request signing: RobustCOSUploader._generate_authorization and          *)
(* TencentVideoService._generate_authorization                             *)
(***************************************************************************)
\* expired = now + 3600
SignValidity == 3600

\* the clock values a signing call can read
MaxClock == 2

\* (secret_id, secret_key) of a service object
Credentials == {<<"AKID1", "key1">>, <<"AKID2", "key2">>}
Methods == {"GET", "put"}
\* URIs as character sequences: "/a" and "/a b"
Uris == {<<"/", "a">>, <<"/", "a", " ", "b">>}
CosHost == "Bucket.cos.region.myqcloud.com"
CiHost == "bucket.ci.region.myqcloud.com"
\* request bodies handed to the signer of TencentVideoService
SignBodies == {"", "<Request/>"}

\* object keys as character sequences: "a", "a b", "a%b" and a key with
\* the non-ASCII character U+00E9
ObjectKeys == {<<"a">>, <<"a", " ", "b">>, <<"a", "%", "b">>, <<"a", "U+00E9">>}

\* str.lower() on the values above
Lower(s) ==
    IF s = "GET" THEN "get"
    ELSE IF s = "PUT" THEN "put"
    ELSE IF s = CosHost THEN "bucket.cos.region.myqcloud.com"
    ELSE s

\* urllib.parse.quote(uri, safe='/'): every character but letters and '/'
\* becomes its %XX escape
quote(uri) ==
    LET F[i \in 0..Len(uri)] ==
            IF i = 0 THEN <<>>
            ELSE IF uri[i] = " " THEN F[i - 1] \o <<"%", "2", "0">>
            ELSE IF uri[i] = "%" THEN F[i - 1] \o <<"%", "2", "5">>
            ELSE IF uri[i] = "U+00E9"
            THEN F[i - 1] \o <<"%", "C", "3", "%", "A", "9">>
            ELSE Append(F[i - 1], uri[i])
    IN F[Len(uri)]

\* hashlib.sha1(x).hexdigest() and hmac.new(key, msg, sha1).hexdigest():
\* the digest stands for its input, distinct inputs give distinct digests
Sha1(x) == <<"sha1", x>>
Hmac(key, msg) == <<"hmac", key, msg>>

\* key_time = f"{now};{expired}"
KeyTime(now) == <<now, now + SignValidity>>

NoSign == [signer |-> "none"]

\* a signer that hands out the authorization of the call before, when
\* there was one
Authorization_cached(secret_id, secret_key, method, uri, host, now) ==
    IF lastSign # NoSign THEN lastSign.token
    ELSE [algorithm |-> "sha1", ak |-> secret_id, signTime |-> KeyTime(now),
          keyTime |-> KeyTime(now), headerList |-> "host", urlParamList |-> "",
          signature |-> Hmac(Hmac(secret_key, KeyTime(now)),
                             <<"sha1", KeyTime(now), Sha1(<<method, uri, "", host>>)>>)]

\* SignKey, HttpString, StringToSign, Signature and the authorization
\* string made of them, as both signers compute them from the method, URI
\* and host they put into the HttpString
Authorization(secret_id, secret_key, method, uri, host, now) ==
    LET key_time == KeyTime(now)
        sign_key == Hmac(secret_key, key_time)
        http_string == <<method, uri, "", host>>
        string_to_sign == <<"sha1", key_time, Sha1(http_string)>>
        signature == Hmac(sign_key, string_to_sign)
    IN  [algorithm |-> "sha1", ak |-> secret_id, signTime |-> key_time,
         keyTime |-> key_time, headerList |-> "host", urlParamList |-> "",
         signature |-> signature]

\* RobustCOSUploader._generate_authorization(method, uri, host) at clock now
cos_generate_authorization(cred, method, uri, host, now) ==
    Authorization(cred[1], cred[2], Lower(method), quote(uri), Lower(host), now)

\* TencentVideoService._generate_authorization(method, uri, body, headers)
\* at clock now: the URI as given, the host of the service's bucket
ci_generate_authorization(cred, method, uri, body, now) ==
    Authorization(cred[1], cred[2], Lower(method), uri, CiHost, now)

SignIdle ==
    /\ clock = 0
    /\ prevSign = NoSign
    /\ lastSign = NoSign

\* the jobs the table is followed for
MaxJobs == 2
JobIds == 1..MaxJobs

\* an empty table, no job requested, no reader
TableIdle ==
    /\ table = [j \in JobIds |-> NoRecord]
    /\ tjob = [j \in JobIds |-> [pc |-> "none", background |-> FALSE, seen |-> <<>>]]
    /\ lastWriter = 0
    /\ lastOp = "none"
    /\ held = [kind |-> "none"]

\* the upload-and-process requests that are followed
MaxRequests == 4
RequestIds == 1..MaxRequests

\* no request has arrived
ConcIdle == cjob = [j \in RequestIds |-> "none"]

\* the compositor has not been called
GeomIdle == geo = [pc |-> "idle"]

\* no background removal has started
NoKey == <<>>
KeysIdle ==
    kjob = [j \in JobIds |-> [pc |-> "none", background_key |-> NoKey,
                              input_key |-> NoKey, output_key |-> NoKey,
                              output_path |-> NoKey]]

\* the uploads one batch request can carry
MaxFiles == 2
\* file names of uploads: stem and extension
Filenames == {<<"a", ".mp4">>, <<"a", ".MP4">>, <<"b", ".mov">>, <<"notes", ".txt">>}
\* no batch has been uploaded
NoBatch ==
    [pc |-> "none", posix |-> TRUE, uploaded_files |-> <<>>, disk |-> {},
     total_files |-> 0, completed_files |-> 0, failed_files |-> 0,
     status |-> "none", video_files |-> {}, download_ready |-> FALSE]
BatchIdle == batch = NoBatch

\* the tasks that use one lock key, and the time that is followed, in
\* steps of a quarter of max_wait_ms
MaxTasks == 2
MaxTime == 7
TaskIds == 1..MaxTasks
\* the key is absent and no task has entered
NoLock ==
    [redis |-> TRUE, now |-> 0, key |-> 0, expires |-> 0,
     pc |-> [t \in TaskIds |-> "out"], start |-> [t \in TaskIds |-> 0]]
LockIdle == rlock = NoLock

\* no operation of the pipeline is under way
PipeIdle ==
    /\ entry = "none"
    /\ job = JobIdle
    /\ job_progress = NoRecord
    /\ rq = RqIdle
    /\ sub = SubIdle
    /\ up = UpIdle
    /\ poll = PollIdle
    /\ dl = DlIdle
    /\ local_file = NoFile

Init ==
    /\ SignIdle
    /\ TableIdle
    /\ ConcIdle
    /\ GeomIdle
    /\ KeysIdle /\ BatchIdle /\ LockIdle
    /\ entry \in Entries
    /\ job = JobIdle
    /\ job_progress = NoRecord
    /\ rq = RqIdle
    /\ sub = SubIdle
    /\ up = UpIdle
    /\ poll = PollIdle
    /\ dl = DlIdle
    /\ local_file \in (IF entry = "download" THEN {NoFile, OldFile} ELSE {NoFile})

Next ==
    \/ call_upload
    \/ upload_file_begin
    \/ upload_attempt
    \/ upload_sleep
    \/ call_poll
    \/ poll_iteration
    \/ poll_timeout
    \/ call_download
    \/ download_file_begin
    \/ download_get
    \/ download_chunk
    \/ download_stream_error
    \/ download_finish
    \/ call_submit
    \/ submit_resolve_queue
    \/ queue_list
    \/ queue_activate
    \/ queue_open
    \/ queue_list_again
    \/ submit_build
    \/ submit_post
    \/ submit_open
    \/ submit_repost
    \/ call_job
    \/ process_start
    \/ process_validate
    \/ remove_background_begin
    \/ background_uploaded
    \/ video_uploaded
    \/ job_submitted
    \/ job_polled
    \/ output_downloaded
    \/ normalize_video
    \/ process_failed
    \/ process_overlay
    \/ process_subtitles
    \/ process_complete

Spec == Init /\ [][Next]_vars

\* one call of _wait_for_job_completion.  The coroutine is awaited by its
\* caller, every status query ends within its timeout and every
\* asyncio.sleep returns, so a loop test that can be made is made.
InitPoll ==
    /\ SignIdle /\ TableIdle /\ ConcIdle /\ GeomIdle /\ KeysIdle /\ BatchIdle /\ LockIdle
    /\ entry = "poll"
    /\ job = JobIdle
    /\ job_progress = NoRecord
    /\ rq = RqIdle
    /\ sub = SubIdle
    /\ up = UpIdle
    /\ poll = PollIdle
    /\ dl = DlIdle
    /\ local_file = NoFile

NextPoll ==
    \/ call_poll
    \/ poll_iteration
    \/ poll_timeout

SpecPoll ==
    /\ InitPoll
    /\ [][NextPoll]_vars
    /\ WF_vars(poll_iteration)
    /\ WF_vars(poll_timeout)

\* one call of _wait_for_job_completion during which a cancellation may be
\* asked for
NextCancel ==
    \/ call_poll
    \/ poll_iteration
    \/ poll_timeout
    \/ poll_cancel_requested

SpecCancel == InitPoll /\ [][NextCancel]_vars

\* upload_file and download_file of one object key, one after the other
InitRound ==
    /\ SignIdle /\ TableIdle /\ ConcIdle /\ GeomIdle /\ KeysIdle /\ BatchIdle /\ LockIdle
    /\ entry = "roundtrip"
    /\ job = JobIdle
    /\ job_progress = NoRecord
    /\ rq = RqIdle
    /\ sub = SubIdle
    /\ up = UpIdle
    /\ poll = PollIdle
    /\ dl = DlIdle
    /\ local_file \in {NoFile, OldFile}

NextRound ==
    \/ call_roundtrip_upload
    \/ upload_file_begin
    \/ upload_attempt
    \/ upload_sleep
    \/ call_roundtrip_download
    \/ download_file_begin
    \/ download_get
    \/ download_chunk
    \/ download_stream_error
    \/ download_finish

SpecRound == InitRound /\ [][NextRound]_vars

(***************************************************************************)
(* The signers called at any clock value, with any arguments               *)
(***************************************************************************)
SignCall(signer, cred, method, uri, host, body, token) ==
    [signer |-> signer, cred |-> cred, method |-> method, uri |-> uri,
     host |-> host, body |-> body, now |-> clock, token |-> token]

\* what the signer actions leave alone
SignFrame == <<pipeVars, tableVars, concVars, geomVars, keyVars, batchVars, lockVars>>

\* one call of the uploader's signer
sign_cos ==
    /\ \E cred \in Credentials, method \in Methods, uri \in Uris :
         lastSign' = SignCall("cos", cred, method, uri, CosHost, "",
                        cos_generate_authorization(cred, method, uri, CosHost, clock))
    /\ prevSign' = lastSign
    /\ UNCHANGED <<clock, SignFrame>>

\* one call of the CI signer
sign_ci ==
    /\ \E cred \in Credentials, method \in Methods, uri \in Uris,
          body \in SignBodies :
         lastSign' = SignCall("ci", cred, method, uri, CiHost, body,
                        ci_generate_authorization(cred, method, uri, body, clock))
    /\ prevSign' = lastSign
    /\ UNCHANGED <<clock, SignFrame>>

\* the URL and the signature of one attempt of upload_file ("PUT") or
\* download_file ("GET") for an object key: normalized_key, url, uri and the
\* authorization the uploader's signer returns for uri
sign_transfer ==
    /\ \E cred \in Credentials, method \in {"PUT", "GET"},
          object_key \in ObjectKeys :
         LET normalized_key == quote(object_key)
             url == [host |-> CosHost, path |-> <<"/">> \o normalized_key]
             uri == <<"/">> \o normalized_key
         IN lastSign' =
              [signer |-> "transfer", cred |-> cred, method |-> method,
               uri |-> uri, host |-> CosHost, body |-> "", now |-> clock,
               token |-> cos_generate_authorization(cred, method, uri,
                                                    CosHost, clock),
               object_key |-> object_key, url |-> url]
    /\ prevSign' = lastSign
    /\ UNCHANGED <<clock, SignFrame>>

\* time passes between two calls
clock_tick ==
    /\ clock < MaxClock
    /\ clock' = clock + 1
    /\ UNCHANGED <<prevSign, lastSign, SignFrame>>

InitSign == PipeIdle /\ SignIdle /\ TableIdle /\ ConcIdle /\ GeomIdle /\ KeysIdle /\ BatchIdle /\ LockIdle

NextSign ==
    \/ sign_cos
    \/ sign_ci
    \/ sign_transfer
    \/ clock_tick

SpecSign == InitSign /\ [][NextSign]_vars


(***************************************************************************)
(* The job-progress table of VideoProcessorService with several jobs and   *)
(* a reader: routes/video.py upload_and_process_video and                  *)
(* get_processing_progress, VideoProcessorService.get_job_progress,        *)
(* get_all_jobs and the writes of process_teacher_video_background.        *)
(* Between two awaits a coroutine runs alone, so the writes made between   *)
(* two awaits are one step.                                                *)
(***************************************************************************)
\* what the table actions leave alone
TableFrame == <<pipeVars, signVars, concVars, geomVars, keyVars, batchVars, lockVars>>

\* a record created with a status outside processing / completed / failed
InitialRecord_queued ==
    [status |-> "queued", progress |-> 0, current_step |-> "start",
     error |-> <<>>, result |-> <<>>]

\* self.job_progress[job_id] = {"status": "processing", "progress": 0, ...}
InitialRecord ==
    [status |-> "processing", progress |-> 0, current_step |-> "start",
     error |-> <<>>, result |-> <<>>]

\* the result dictionary process_teacher_video_background builds: the keys
\* read by the routes and the keys that tell how the video was processed
ResultOf(background) ==
    [processed_video |-> "output/final.mp4", output_path |-> "output/final.mp4",
     has_background |-> TRUE, processing_method |-> "tencent_cloud"]

\* a failure update that is not followed by return: the job goes on to
\* build its result
TJobStep_noReturn(j, pc) ==
    [tjob EXCEPT ![j].pc = IF pc = "done" /\ table'[j].status = "failed"
                           THEN "finish" ELSE pc,
                 ![j].seen = IF table'[j].status # "none" /\
                                 (@ = <<>> \/ @[Len(@)] # table'[j].status)
                              THEN Append(@, table'[j].status) ELSE @]

\* job j took a step: its position, and the statuses its record has had
TJobStep(j, pc) ==
    [tjob EXCEPT ![j].pc = pc,
                 ![j].seen = IF table'[j].status # "none" /\
                                 (@ = <<>> \/ @[Len(@)] # table'[j].status)
                              THEN Append(@, table'[j].status) ELSE @]

\* POST /upload-and-process: a job id is made, the background task is
\* added, and the id is returned to the client
upload_and_process_video(j) ==
    /\ tjob[j].pc = "none"
    /\ \E bg \in BOOLEAN :
         tjob' = [tjob EXCEPT ![j].pc = "queued", ![j].background = bg]
    /\ lastOp' = "handout"
    /\ UNCHANGED <<table, lastWriter, held, TableFrame>>

\* the background task starts: the record of the job is created
progress_init(j) ==
    /\ tjob[j].pc = "queued"
    /\ table' = [table EXCEPT ![j] = InitialRecord]
    /\ tjob' = TJobStep(j, "validate")
    /\ lastWriter' = j
    /\ lastOp' = "create"
    /\ UNCHANGED <<held, TableFrame>>

\* the file and duration checks, then progress 5 and 10
progress_validate(j) ==
    /\ tjob[j].pc = "validate"
    /\ \E check \in {"ok", "missing", "too_long"} :
         /\ table' = [table EXCEPT ![j] =
               CASE check = "ok" ->
                      _update_progress(_update_progress(@, 5, "estimate"),
                                       10, "tencent background processing")
                 [] check = "too_long" ->
                      [@ EXCEPT !.status = "failed", !.error = <<"video too long">>,
                                !.progress = 0]
                 [] check = "missing" ->
                      [@ EXCEPT !.status = "failed", !.current_step = "failed",
                                !.error = <<"video file does not exist">>]]
         /\ tjob' = TJobStep(j, IF check = "ok" THEN "remove" ELSE "done")
    /\ lastWriter' = j
    /\ lastOp' = "update"
    /\ UNCHANGED <<held, TableFrame>>

\* remove_background returned: progress 70 on success, the failure update
\* (progress 0 and the step text, then status failed) otherwise
progress_remove_background(j) ==
    /\ tjob[j].pc = "remove"
    /\ \E success \in BOOLEAN :
         /\ table' = [table EXCEPT ![j] =
               IF success THEN _update_progress(@, 70, "name overlay")
               ELSE FailRecord(@, "error")]
         /\ tjob' = TJobStep(j, IF success THEN "finish" ELSE "done")
    /\ lastWriter' = j
    /\ lastOp' = "update"
    /\ UNCHANGED <<held, TableFrame>>

\* overlay and subtitles done: progress 90 and 95, the result is built and
\* the record becomes completed
progress_complete(j) ==
    /\ tjob[j].pc = "finish"
    /\ table' = [table EXCEPT ![j] =
          [_update_progress(_update_progress(@, 90, "composed"), 95, "build result")
             EXCEPT !.status = "completed", !.progress = 100,
                    !.current_step = "completed",
                    !.result = ResultOf(tjob[j].background)]]
    /\ tjob' = TJobStep(j, "done")
    /\ lastWriter' = j
    /\ lastOp' = "update"
    /\ UNCHANGED <<held, TableFrame>>

\* _update_progress(job_id, ...) called for an id the table has no
\* record of
update_progress_unknown(j) ==
    /\ table[j] = NoRecord
    /\ \E progress \in {0, 50}, step \in {"step"} :
         table' = [table EXCEPT ![j] = _update_progress(@, progress, step)]
    /\ lastWriter' = j
    /\ lastOp' = "_update_progress"
    /\ UNCHANGED <<tjob, held, TableFrame>>

NoHeld == [kind |-> "none"]

\* get_job_progress(job_id): self.job_progress.get(job_id), the record
\* object of the table itself, or None.  `at` is what it held at the return
get_job_progress(j) ==
    /\ held = NoHeld
    /\ held' = [kind |-> "one", ids |-> {j}, at |-> table,
                handed |-> tjob[j].pc # "none"]
    /\ lastOp' = "read"
    /\ UNCHANGED <<table, tjob, lastWriter, TableFrame>>

\* get_all_jobs(): self.job_progress.copy(), a new dictionary with the
\* keys of the table and the record objects of the table as values
get_all_jobs ==
    /\ held = NoHeld
    /\ held' = [kind |-> "all", ids |-> {j \in JobIds : table[j] # NoRecord},
                at |-> table, handed |-> TRUE]
    /\ lastOp' = "read"
    /\ UNCHANGED <<table, tjob, lastWriter, TableFrame>>

\* the reader drops what it was given
reader_done ==
    /\ held # NoHeld
    /\ held' = NoHeld
    /\ lastOp' = "read"
    /\ UNCHANGED <<table, tjob, lastWriter, TableFrame>>

\* what the reader finds now in what it was given: None where it was
\* given None, else the record object of the table
HeldView ==
    [j \in held.ids |-> IF held.at[j] = NoRecord THEN NoRecord ELSE table[j]]
\* what was in it when it was returned
HeldAtReturn == [j \in held.ids |-> held.at[j]]

InitTable == PipeIdle /\ SignIdle /\ TableIdle /\ ConcIdle /\ GeomIdle /\ KeysIdle /\ BatchIdle /\ LockIdle

NextTable ==
    \/ \E j \in JobIds : upload_and_process_video(j)
    \/ \E j \in JobIds : progress_init(j)
    \/ \E j \in JobIds : progress_validate(j)
    \/ \E j \in JobIds : progress_remove_background(j)
    \/ \E j \in JobIds : progress_complete(j)
    \/ \E j \in JobIds : update_progress_unknown(j)
    \/ \E j \in JobIds : get_job_progress(j)
    \/ get_all_jobs
    \/ reader_done

SpecTable == InitTable /\ [][NextTable]_vars

(***************************************************************************)
(* Admission of jobs: every POST /upload-and-process adds                  *)
(* process_teacher_video_background as a background task; the task sets    *)
(* its record to "processing" when it starts and keeps it so across the    *)
(* awaits of the pipeline (asyncio.sleep in the upload and poll loops),    *)
(* where the event loop runs the other tasks.                              *)
(***************************************************************************)
\* settings.MAX_CONCURRENT_JOBS, the size of the processor's thread pool
\* and the larger of the two limits of the settings (MAX_PARALLEL_JOBS is 1)
MAX_CONCURRENT_JOBS == 3

\* what the tasks of this model leave alone
ConcFrame == <<pipeVars, signVars, tableVars, geomVars, keyVars, batchVars, lockVars>>

\* the jobs whose record has status "processing"
ProcessingJobs == {j \in RequestIds : cjob[j] = "processing"}

\* upload_and_process_video: the upload is saved, a job id is made and the
\* background task is added
conc_request(j) ==
    /\ cjob[j] = "none"
    /\ cjob' = [cjob EXCEPT ![j] = "queued"]
    /\ UNCHANGED ConcFrame

\* process_teacher_video_background starts: the record is created with
\* status "processing" and the task runs up to an await that suspends it.
\* No semaphore, lock or pool stands between add_task and the coroutine:
\* self.executor is never submitted to.
conc_start(j) ==
    /\ cjob[j] = "queued"
    /\ cjob' = [cjob EXCEPT ![j] = "processing"]
    /\ UNCHANGED ConcFrame

\* the task is resumed and reaches the end of the pipeline
conc_complete(j) ==
    /\ cjob[j] = "processing"
    /\ cjob' = [cjob EXCEPT ![j] = "completed"]
    /\ UNCHANGED ConcFrame

\* the task is resumed and a step of the pipeline fails
conc_fail(j) ==
    /\ cjob[j] = "processing"
    /\ cjob' = [cjob EXCEPT ![j] = "failed"]
    /\ UNCHANGED ConcFrame

InitConc == PipeIdle /\ SignIdle /\ TableIdle /\ ConcIdle /\ GeomIdle /\ KeysIdle /\ BatchIdle /\ LockIdle

NextConc ==
    \/ \E j \in RequestIds : conc_request(j)
    \/ \E j \in RequestIds : conc_start(j)
    \/ \E j \in RequestIds : conc_complete(j)
    \/ \E j \in RequestIds : conc_fail(j)

SpecConc == InitConc /\ [][NextConc]_vars

(***************************************************************************)
(* VideoCompositorService.composite_with_background: the geometry of the   *)
(* filter graph.  The foreground is cropped to the bounding box that the   *)
(* bbox filter reports, scaled by scale2ref against the background and     *)
(* laid over it.  Ratios are in hundredths (ratio 50 is 0.5), an aspect    *)
(* is a pair <<width, height>>, and the expressions are evaluated exactly. *)
(***************************************************************************)
\* the sizes of the background image, <<width, height>>
BackgroundSizes == {<<1920, 1080>>, <<1921, 1080>>, <<1920, 1079>>, <<720, 1280>>}
\* the settings the compositor reads: FG_SCALE_RATIO and
\* FG_SAFE_MARGIN_RATIO in hundredths, FG_TOP_MARGIN, FG_BOTTOM_MARGIN
CompositorSettings ==
    [ratio : {20, 50, 72, 95}, top_margin : {40, 80}, bottom_margin : {80, 81},
     safe_ratio : {8}]
\* the size of the foreground frame
ForegroundSize == <<720, 1280>>
\* what the bbox filter can report for a frame, <<w, h>>: nothing opaque,
\* a square, a tall and a wide box, the whole frame
BoundingBoxes ==
    {<<0, 0>>, <<400, 400>>, <<300, 600>>, <<700, 200>>, ForegroundSize}
\* which input the constant `a` of the scale2ref expressions stands for:
\* the scaled (main) input, as in the scale filter, or the reference input
AspectReadings == {"main", "reference"}

\* what the compositor actions leave alone
GeomFrame == <<pipeVars, signVars, tableVars, concVars, keyVars, batchVars, lockVars>>

\* safe_lr = round(ih2 * safe_ratio)
safe_lr(ih2, safe_ratio) == (2 * ih2 * safe_ratio + 100) \div 200

\* base_w = trunc((ih2 * ratio * a) / 2) * 2
base_w(ih2, ratio, a) == ((ih2 * ratio * a[1]) \div (200 * a[2])) * 2

\* base_h = trunc((ih2 * ratio) / 2) * 2
base_h(ih2, ratio) == ((ih2 * ratio) \div 200) * 2

\* the width without the limit of the safe margins
w_expr_unclamped(iw2, ih2, ratio, a, safe_ratio) == base_w(ih2, ratio, a)

\* w_expr = min(base_w, iw2 - 2 * safe_lr)
w_expr(iw2, ih2, ratio, a, safe_ratio) ==
    Min(base_w(ih2, ratio, a), iw2 - 2 * safe_lr(ih2, safe_ratio))

\* h_expr = min(base_h, ih2 - top_margin - bottom_margin)
h_expr(ih2, ratio, top_margin, bottom_margin) ==
    Min(base_h(ih2, ratio), ih2 - top_margin - bottom_margin)

\* overlay x = (W - w) / 2, cut to a whole pixel
overlay_x(W, w) == (W - w) \div 2

\* overlay y = top + ((H - top - bottom) - h) / 2 + (bottom - top) / 2,
\* cut to a whole pixel
overlay_y(H, h, top_margin, bottom_margin) ==
    (2 * top_margin + ((H - top_margin - bottom_margin) - h)
       + (bottom_margin - top_margin)) \div 2

\* composite_with_background is called: the settings are read, the inputs
\* exist
composite_with_background ==
    /\ geo.pc = "idle"
    /\ \E bg \in BackgroundSizes, settings \in CompositorSettings :
         geo' = [pc |-> "probe", W |-> bg[1], H |-> bg[2],
                 ratio |-> settings.ratio,
                 top_margin |-> settings.top_margin,
                 bottom_margin |-> settings.bottom_margin,
                 safe_ratio |-> settings.safe_ratio]
    /\ UNCHANGED GeomFrame

\* ffprobe reads the pixel format of the foreground; has_alpha stays False
\* when the probe fails
composite_probe ==
    /\ geo.pc = "probe"
    /\ \E has_alpha \in BOOLEAN :
         geo' = [pc |-> "crop", W |-> geo.W, H |-> geo.H, ratio |-> geo.ratio,
                 top_margin |-> geo.top_margin,
                 bottom_margin |-> geo.bottom_margin,
                 safe_ratio |-> geo.safe_ratio, has_alpha |-> has_alpha]
    /\ UNCHANGED GeomFrame

\* crop=w=metadata('lavfi.bbox.w'):h=metadata('lavfi.bbox.h'):...: the crop
\* that is asked for is the box the bbox filter reports on the alpha plane
\* or on the luminance, whatever that box is
composite_crop ==
    /\ geo.pc = "crop"
    /\ \E bbox \in BoundingBoxes :
         geo' = [pc |-> "scale", W |-> geo.W, H |-> geo.H, ratio |-> geo.ratio,
                 top_margin |-> geo.top_margin,
                 bottom_margin |-> geo.bottom_margin,
                 safe_ratio |-> geo.safe_ratio, has_alpha |-> geo.has_alpha,
                 bbox |-> bbox, crop |-> bbox]
    /\ UNCHANGED GeomFrame

\* scale2ref=w={w_expr}:h={h_expr} and overlay on a crop that has an area;
\* ih2 and iw2 are the height and width of the background
composite_scale ==
    /\ geo.pc = "scale"
    /\ geo.crop[1] > 0 /\ geo.crop[2] > 0
    /\ \E reading \in AspectReadings :
         LET a == IF reading = "main" THEN geo.crop ELSE <<geo.W, geo.H>>
             w == w_expr(geo.W, geo.H, geo.ratio, a, geo.safe_ratio)
             h == h_expr(geo.H, geo.ratio, geo.top_margin, geo.bottom_margin)
         IN geo' = [pc |-> "done", W |-> geo.W, H |-> geo.H,
                    ratio |-> geo.ratio, top_margin |-> geo.top_margin,
                    bottom_margin |-> geo.bottom_margin,
                    safe_ratio |-> geo.safe_ratio,
                    has_alpha |-> geo.has_alpha, bbox |-> geo.bbox,
                    crop |-> geo.crop, reading |-> reading,
                    w |-> w, h |-> h, x |-> overlay_x(geo.W, w),
                    y |-> overlay_y(geo.H, h, geo.top_margin,
                                    geo.bottom_margin)]
    /\ UNCHANGED GeomFrame

\* ffmpeg ends with a return code other than 0: the exception is caught
\* and the result is {'success': False}
composite_failed ==
    /\ geo.pc \in {"crop", "scale"}
    /\ geo' = [pc |-> "failed", W |-> geo.W, H |-> geo.H,
               ratio |-> geo.ratio, top_margin |-> geo.top_margin,
               bottom_margin |-> geo.bottom_margin,
               safe_ratio |-> geo.safe_ratio, has_alpha |-> geo.has_alpha,
               crop |-> IF geo.pc = "scale" THEN geo.crop ELSE <<>>]
    /\ UNCHANGED GeomFrame

InitGeom == PipeIdle /\ SignIdle /\ TableIdle /\ ConcIdle /\ GeomIdle /\ KeysIdle /\ BatchIdle /\ LockIdle

NextGeom ==
    \/ composite_with_background
    \/ composite_probe
    \/ composite_crop
    \/ composite_scale
    \/ composite_failed

SpecGeom == InitGeom /\ [][NextGeom]_vars

(***************************************************************************)
(* The names TencentVideoService.remove_background gives to the objects    *)
(* and the file of one job, for several jobs in flight.  A job that waits  *)
(* in an asyncio.sleep of its upload or poll loop lets the event loop      *)
(* start the next job; clock is time.time() in whole seconds.              *)
(***************************************************************************)
\* what the naming actions leave alone
KeysFrame == <<pipeVars, tableVars, concVars, geomVars, batchVars, lockVars, prevSign, lastSign>>

\* the extensions of the background images
BackgroundExts == {".jpg", ".png"}

\* background_key = f"backgrounds/bg_{timestamp}{file_ext}"
background_key(timestamp, file_ext) == <<"backgrounds/bg_", timestamp, file_ext>>
\* input_key = f"input/video_{timestamp}.mp4"
input_key(timestamp) == <<"input/video_", timestamp, ".mp4">>
\* output_key = f"output/processed_{timestamp}.mp4"
output_key(timestamp) == <<"output/processed_", timestamp, ".mp4">>
\* output_path = os.path.join(output_dir, f"ci_processed_{timestamp}.mp4"),
\* output_dir being settings.OUTPUT_DIR for every job
output_path(timestamp) == <<"./outputs", "ci_processed_", timestamp, ".mp4">>

\* upload_background_image of a job that came with a background file
upload_background_image(j) ==
    /\ kjob[j].pc = "none"
    /\ \E file_ext \in BackgroundExts :
         kjob' = [kjob EXCEPT ![j].pc = "background",
                              ![j].background_key = background_key(clock, file_ext)]
    /\ UNCHANGED <<clock, KeysFrame>>

\* _process_with_ci_api starts: timestamp = int(time.time()) names the
\* input object, the output object and the downloaded file
process_with_ci_api(j) ==
    /\ kjob[j].pc \in {"none", "background"}
    /\ kjob' = [kjob EXCEPT ![j].pc = "processing",
                            ![j].input_key = input_key(clock),
                            ![j].output_key = output_key(clock),
                            ![j].output_path = output_path(clock)]
    /\ UNCHANGED <<clock, KeysFrame>>

\* remove_background of the job returns
remove_background_returns(j) ==
    /\ kjob[j].pc = "processing"
    /\ kjob' = [kjob EXCEPT ![j].pc = "done"]
    /\ UNCHANGED <<clock, KeysFrame>>

InitKeys == PipeIdle /\ SignIdle /\ TableIdle /\ ConcIdle /\ GeomIdle /\ KeysIdle /\ BatchIdle /\ LockIdle

NextKeys ==
    \/ \E j \in JobIds : upload_background_image(j)
    \/ \E j \in JobIds : process_with_ci_api(j)
    \/ \E j \in JobIds : remove_background_returns(j)
    \/ clock_tick

SpecKeys == InitKeys /\ [][NextKeys]_vars

(***************************************************************************)
(* Batch routes (app/api/routes/batch.py): one batch from its upload to    *)
(* the end of process_batch_videos.  posix tells whether file names and    *)
(* glob patterns are matched with case (POSIX) or without (Windows).       *)
(***************************************************************************)
BatchFrame == <<pipeVars, signVars, tableVars, concVars, geomVars, keyVars, lockVars>>

VideoExts == {".mp4", ".avi", ".mov", ".mkv"}

\* str.lower() on the extensions above
LowerExt(ext) == IF ext = ".MP4" THEN ".mp4" ELSE ext

\* file.filename.lower().endswith(('.mp4', '.avi', '.mov', '.mkv'))
IsVideoName(f) == LowerExt(f[2]) \in VideoExts

\* the directory entry upload_dir / file.filename names
DirEntry(f, posix) == IF posix THEN f ELSE <<f[1], LowerExt(f[2])>>

\* upload_dir.glob("*.mp4") + glob("*.avi") + glob("*.mov") + glob("*.mkv")
GlobVideos(disk, posix) ==
    {f \in disk : IF posix THEN f[2] \in VideoExts ELSE LowerExt(f[2]) \in VideoExts}

\* the lists of uploads of one request
UploadLists == UNION {[1..n -> Filenames] : n \in 1..MaxFiles}

\* POST /upload: every upload with a video extension is written to
\* upload_dir / filename and appended to uploaded_files; without any the
\* request is refused, else the batch is created with total_files =
\* len(uploaded_files) and its processing is scheduled
batch_upload_videos ==
    /\ batch.pc = "none"
    /\ \E files \in UploadLists :
         LET uploaded_files == SelectSeq(files, IsVideoName) IN
         IF uploaded_files = <<>>
         THEN batch' = [batch EXCEPT !.pc = "refused"]
         ELSE batch' = [batch EXCEPT
                  !.pc = "scheduled",
                  !.uploaded_files = uploaded_files,
                  !.disk = {DirEntry(uploaded_files[i], batch.posix) :
                               i \in 1..Len(uploaded_files)},
                  !.total_files = Len(uploaded_files),
                  !.status = "processing"]
    /\ UNCHANGED <<rlock, BatchFrame>>

\* process_batch_videos up to its loop: status failed when the upload
\* directory is gone, else the video files of the directory are listed
process_batch_videos ==
    /\ batch.pc = "scheduled"
    /\ \E exists \in BOOLEAN :
         IF ~exists
         THEN batch' = [batch EXCEPT !.pc = "done", !.status = "failed"]
         ELSE batch' = [batch EXCEPT
                  !.pc = "loop",
                  !.video_files = GlobVideos(batch.disk, batch.posix)]
    /\ UNCHANGED <<rlock, BatchFrame>>

\* one iteration of the loop: the video is processed and its record read;
\* completed counts as completed, failed or an exception as failed
process_batch_video ==
    /\ batch.pc = "loop"
    /\ \E f \in batch.video_files, outcome \in {"completed", "failed", "raised"} :
         batch' = [batch EXCEPT
             !.video_files = @ \ {f},
             !.completed_files = IF outcome = "completed" THEN @ + 1 ELSE @,
             !.failed_files = IF outcome = "completed" THEN @ ELSE @ + 1]
    /\ UNCHANGED <<rlock, BatchFrame>>

\* after the loop: completed when no file failed, else partial; the
\* download package when a file completed, whose failure makes the
\* status failed
process_batch_finish ==
    /\ batch.pc = "loop"
    /\ batch.video_files = {}
    /\ \E packaged \in BOOLEAN :
         batch' = [batch EXCEPT
             !.pc = "done",
             !.status = IF batch.completed_files > 0 /\ ~packaged THEN "failed"
                        ELSE IF batch.failed_files = 0 THEN "completed"
                        ELSE "partial",
             !.download_ready = batch.completed_files > 0 /\ packaged]
    /\ UNCHANGED <<rlock, BatchFrame>>

InitBatch ==
    /\ PipeIdle /\ SignIdle /\ TableIdle /\ ConcIdle /\ GeomIdle /\ KeysIdle
    /\ LockIdle
    /\ \E posix \in BOOLEAN : batch = [NoBatch EXCEPT !.posix = posix]

NextBatch ==
    \/ batch_upload_videos
    \/ process_batch_videos
    \/ process_batch_video
    \/ process_batch_finish

SpecBatch == InitBatch /\ [][NextBatch]_vars

(***************************************************************************)
(* RedisAsyncLock (app/utils/redis_lock.py): the tasks that guard a        *)
(* critical section with one key.  Each task has its own lock object and   *)
(* token; task t's token is written t, 0 stands for an absent key.  Time   *)
(* advances in steps of TickMs; redis tells whether a Redis URL is set.    *)
(***************************************************************************)
LockFrame == <<pipeVars, signVars, tableVars, concVars, geomVars, keyVars, batchVars>>

\* defaults of __init__, in milliseconds (ttl_ms is also ASR_LOCK_TTL_MS)
ttl_ms == 900000
max_wait_ms == 600000
TickMs == max_wait_ms \div 4

\* __aenter__ up to its loop: without Redis the lock is a no-op and the
\* task is inside at once
lock_aenter(t) ==
    /\ rlock.pc[t] = "out"
    /\ rlock' = [rlock EXCEPT
                    !.pc[t] = IF rlock.redis THEN "trying" ELSE "inside",
                    !.start[t] = rlock.now * TickMs]
    /\ UNCHANGED <<batch, LockFrame>>

\* one iteration of the loop that does not end in the retry sleep: SET key
\* token NX PX ttl_ms succeeds when the key is absent; a failed SET after
\* more than max_wait_ms raises TimeoutError
lock_set(t) ==
    /\ rlock.pc[t] = "trying"
    /\ IF rlock.key = 0
       THEN rlock' = [rlock EXCEPT !.pc[t] = "inside", !.key = t,
                                   !.expires = rlock.now * TickMs + ttl_ms]
       ELSE /\ rlock.now * TickMs - rlock.start[t] > max_wait_ms
            /\ rlock' = [rlock EXCEPT !.pc[t] = "timed_out"]
    /\ UNCHANGED <<batch, LockFrame>>

\* time passes, in a critical section or in a retry sleep; Redis removes
\* the key once its PX time is over
lock_tick ==
    /\ rlock.now < MaxTime
    /\ rlock' = [rlock EXCEPT
                    !.now = @ + 1,
                    !.key = IF @ # 0 /\ rlock.expires <= (rlock.now + 1) * TickMs
                            THEN 0 ELSE @]
    /\ UNCHANGED <<batch, LockFrame>>

\* __aexit__: the script deletes the key when it holds this task's token
lock_aexit(t) ==
    /\ rlock.pc[t] = "inside"
    /\ rlock' = [rlock EXCEPT
                    !.pc[t] = "left",
                    !.key = IF rlock.redis /\ @ = t THEN 0 ELSE @]
    /\ UNCHANGED <<batch, LockFrame>>

InitLock ==
    /\ PipeIdle /\ SignIdle /\ TableIdle /\ ConcIdle /\ GeomIdle /\ KeysIdle
    /\ BatchIdle
    /\ \E redis \in BOOLEAN : rlock = [NoLock EXCEPT !.redis = redis]

NextLock ==
    \/ \E t \in TaskIds : lock_aenter(t)
    \/ \E t \in TaskIds : lock_set(t)
    \/ \E t \in TaskIds : lock_aexit(t)
    \/ lock_tick

SpecLock == InitLock /\ [][NextLock]_vars

(***************************************************************************)
(* Properties                                                              *)
(***************************************************************************)

\* C1: once an attempt of upload_file was answered 403 or 404, the upload
\* makes no further PUT and no backoff sleep, and it does not return True.
C1_FatalStatusStopsUpload ==
    up.fatalAt > 0 =>
        /\ up.puts = up.fatalAt
        /\ up.sleeps = up.sleepsAtFatal
        /\ up.ret # "true"

\* C2: upload_file makes at most |available_domains| * max_retries PUTs
\* (max_retries = 5), at most max_retries - 1 sleeps, tries the domains of a
\* round once each in list order, and when every attempt ended in a timeout
\* or connection error it returns False after exactly that many PUTs.
C2_AttemptBound ==
    LET n == Len(up.available_domains) IN
    /\ max_retries = 5
    /\ up.puts <= n * max_retries
    /\ up.sleeps <= max_retries - 1
    /\ Len(up.tried) <= n
    /\ \A i \in 1..Len(up.tried) : up.tried[i] = up.available_domains[i]
    /\ (up.pc = "returned" /\ up.allTransient) =>
           (up.puts = n * max_retries /\ up.ret = "false")

C2_Witness ==
    /\ up.pc = "returned"
    /\ up.allTransient
    /\ Len(up.available_domains) = 2
    /\ up.puts = 10
    /\ up.ret = "false"


\* C3: when every answer was Unknown until the budget elapsed,
\* _wait_for_job_completion returns a value other than the one it returns
\* for a Failed job.
C3_TimeoutDistinctFromFailed ==
    (poll.pc = "returned" /\ poll.cause = "Timeout" /\ poll.allUnknown) =>
        poll.ret # PollReturnValue("Failed")

\* C4: the first Success / Failed answer ends the polling at that query
\* with the matching result, and the answers Submitted, Running, Running,
\* Success end it with Success after exactly 4 queries.
C4_FirstTerminalEndsPoll ==
    /\ poll.termAt > 0 =>
           /\ poll.pc = "returned"
           /\ poll.queries = poll.termAt
           /\ poll.cause = poll.termState
           /\ poll.ret = (IF poll.termState = "Success" THEN "true" ELSE "false")
    /\ poll.match = Len(ScenarioStates) =>
           (poll.pc = "returned" /\ poll.queries = 4 /\ poll.ret = "true")

C4_Witness ==
    /\ poll.match = 4
    /\ poll.pc = "returned"
    /\ poll.cause = "Success"
    /\ poll.queries = 4

\* C5: polling never ends on an unrecognized State, a non-200 answer or an
\* exception: it is over only with a Success / Failed answer as the last
\* one, or with the budget elapsed, and after an irregular answer within
\* the budget the loop is still running.
C5_IrregularNeverTerminal ==
    /\ poll.pc = "returned" =>
           \/ poll.cause \in {"Success", "Failed"} /\ poll.last = poll.cause
           \/ poll.cause = "Timeout" /\ poll.elapsed >= poll.budget
    /\ (poll.last = "irregular" /\ poll.elapsed < poll.budget) => poll.pc = "loop"

C5_Witness ==
    /\ poll.last = "irregular"
    /\ poll.pc = "loop"
    /\ poll.queries >= 3
    /\ poll.elapsed < poll.budget

\* C6: what is at local_path is either what was there before download_file
\* was called or, once it returned True, the whole body of the object.
C6_NoPartialFileVisible ==
    dl.pc # "idle" =>
        \/ local_file = dl.before
        \/ dl.pc = "returned" /\ dl.ret = "true" /\ local_file = dl.body

IsPrefix(a, b) == Len(a) <= Len(b) /\ \A i \in 1..Len(a) : a[i] = b[i]
Last(a) == a[Len(a)]
Contains(a, x) == \E i \in 1..Len(a) : a[i] = x

\* C7: the steps of a job start in the order (bg_upload,) upload, submit,
\* poll, download, normalize, each only after all earlier ones completed
\* successfully; network calls belong to the step that was started last;
\* no POST /jobs or GET /ai_queue before the upload succeeded and no GET
\* of the output object before the poll ended with Success.
C7_StepOrder ==
    entry = "job" =>
        /\ IsPrefix(job.started, PipelineOrder(job.hasBackground))
        /\ IsPrefix(job.completed, job.started)
        /\ Len(job.started) <= Len(job.completed) + 1
        /\ (up.pc # "idle") =>
              (job.started # <<>> /\ Last(job.started) \in {"bg_upload", "upload"})
        /\ (sub.pc # "idle" \/ rq.pc # "idle") =>
              (Last(job.started) = "submit" /\ Contains(job.completed, "upload"))
        /\ (poll.pc # "idle") =>
              (Last(job.started) = "poll" /\ Contains(job.completed, "submit"))
        /\ (dl.pc # "idle") =>
              /\ Last(job.started) = "download"
              /\ Contains(job.completed, "poll")
              /\ job.pollCause = "Success"
        /\ Contains(job.started, "normalize") => Contains(job.completed, "download")

C7_Witness ==
    /\ entry = "job"
    /\ job.hasBackground
    /\ job.completed = PipelineOrder(TRUE)
    /\ job.pc = "rb_returned"

\* C8: after a failure of an upload, of submit, of poll or of the download
\* no later step of the job runs (no further remote step, no name overlay,
\* no subtitles, no result), the record is never completed, and when the
\* job is over its record is failed with a non-empty error.
C8_FailureAborts ==
    job.failedAt \in {"bg_upload", "upload", "submit", "poll", "download"} =>
        /\ Last(job.started) = job.failedAt
        /\ ~Contains(job.completed, job.failedAt)
        /\ up.pc = "idle" /\ sub.pc = "idle" /\ rq.pc = "idle"
        /\ poll.pc = "idle" /\ dl.pc = "idle"
        /\ ~job.overlayRan /\ ~job.subtitlesRan /\ ~job.resultBuilt
        /\ job_progress.status # "completed" /\ ~job_progress.hasResult
        /\ job.pc = "done" =>
              (job_progress.status = "failed" /\ job_progress.error # <<>>)

C8_Witness ==
    /\ job.failedAt = "download"
    /\ job.pc = "done"
    /\ job_progress.status = "failed"

\* POST /ai_bucket requests of one _submit_ci_job call: those of its queue
\* discovery and the one after AIBucketUnBinded
SubmitBucketPosts == rq.opens + sub.queueOpens + sub.opens

\* C9 (as claimed): one _submit_ci_job call sends at most two POST /jobs
\* and at most one POST /ai_bucket; a second POST only after
\* AIBucketUnBinded and a successful provisioning.
C9_AtMostOneBucketPost ==
    sub.pc # "idle" =>
        /\ sub.posts <= 2
        /\ SubmitBucketPosts <= 1
        /\ sub.posts = 2 => (sub.firstCode = "AIBucketUnBinded" /\ sub.openOk)

\* C9 (amended): one _submit_ci_job call sends at most two POST /jobs, at
\* most one POST /ai_bucket after its first POST /jobs and at most two in
\* all; provisioning and the second POST happen only after
\* AIBucketUnBinded, the second POST only after a successful provisioning;
\* the call returns a job id exactly when a POST yielded one and raises
\* otherwise, for any other error after a single POST.
C9_RetryOnceAfterProvisioning ==
    sub.pc # "idle" =>
        /\ sub.posts <= 2
        /\ sub.opens <= 1
        /\ SubmitBucketPosts <= 2
        /\ sub.opens = 1 => sub.firstCode = "AIBucketUnBinded"
        /\ sub.posts = 2 => (sub.firstCode = "AIBucketUnBinded" /\ sub.openOk)
        /\ sub.pc = "returned" =>
              /\ sub.firstCode = "ok" => (sub.ret = "job" /\ sub.posts = 1)
              /\ sub.firstCode = "AIBucketUnBinded" =>
                    /\ sub.opens = 1
                    /\ sub.posts = (IF sub.openOk THEN 2 ELSE 1)
                    /\ sub.ret = (IF sub.secondJob THEN "job" ELSE "raised")
              /\ sub.firstCode \notin {"ok", "AIBucketUnBinded"} =>
                    (sub.posts = 1 /\ sub.opens = 0 /\ sub.ret = "raised")

C9_Witness ==
    /\ sub.pc = "returned"
    /\ sub.firstCode = "AIBucketUnBinded"
    /\ sub.posts = 2
    /\ sub.opens = 1
    /\ sub.queueOpens = 1
    /\ sub.ret = "raised"

\* the category of a listed queue: its QueueType, else its Category
QueueCategory(q) == IF q.queueType # "" THEN q.queueType ELSE q.category

\* C10: when the listed queues contain an Active queue of category
\* AIProcess, _get_queue_id returns the id of an Active AIProcess queue.
C10_PrefersActiveAIProcess ==
    (/\ rq.pc = "returned"
     /\ rq.listing >= 1
     /\ \E i \in 1..Len(rq.queues) :
           rq.queues[i].state = "Active" /\ QueueCategory(rq.queues[i]) = "AIProcess")
    => /\ rq.ret # NoQueueId
       /\ rq.queues[rq.ret].state = "Active"
       /\ QueueCategory(rq.queues[rq.ret]) = "AIProcess"

\* C11: a queue id returned by _get_queue_id after at most one PUT
\* /ai_queue/{id} names a queue that is Active at the return: a listed
\* Paused queue is returned only when its activation succeeded.
C11_ReturnedQueueIsActive ==
    (rq.pc = "returned" /\ rq.ret # NoQueueId) =>
        /\ rq.activations <= 1
        /\ rq.queues[rq.ret].state = "Paused" =>
              (rq.activations = 1 /\ rq.activated = "ok")

\* the listing has an Active queue and no queue of category AIProcess
ActiveButNoAIProcess(qs) ==
    /\ \E i \in 1..Len(qs) : qs[i].state = "Active"
    /\ \A i \in 1..Len(qs) : QueueCategory(qs[i]) # "AIProcess"

\* C12: when the listing has an Active queue but no queue of category
\* AIProcess, _get_queue_id returns no id and no submitted job description
\* has a QueueId element; a submitted job description has a QueueId element
\* exactly when _get_queue_id returned an id, and the element carries it.
C12_QueueIdOnlyFromAIProcess ==
    /\ (rq.pc = "returned" /\ rq.listing >= 1 /\ ActiveButNoAIProcess(rq.queues))
          => rq.ret = NoQueueId
    /\ \A i \in 1..Len(sub.sentQueueId) :
          /\ (sub.queueListing >= 1 /\ ActiveButNoAIProcess(sub.queues))
                => sub.sentQueueId[i] = <<>>
          /\ sub.sentQueueId[i] # <<>> <=> sub.queue_id # NoQueueId
          /\ sub.sentQueueId[i] # <<>> => sub.sentQueueId[i] = <<sub.queue_id>>

\* C13: one _get_queue_id call sends at most two GET /ai_queue and at most
\* one POST /ai_bucket, the second GET only after a POST /ai_bucket that was
\* answered 200 and always after such a one; a call whose first listing is
\* empty sends the POST /ai_bucket.
C13_RediscoversOnceAfterEnable ==
    /\ rq.gets <= 2
    /\ rq.opens <= 1
    /\ rq.gets = 2 => (rq.opens = 1 /\ rq.openStatus = 200)
    /\ rq.pc = "returned" =>
          /\ (rq.opens = 1 /\ rq.openStatus = 200) => rq.gets = 2
          /\ (rq.listing = 1 /\ rq.queues = <<>>) => rq.opens = 1

\* an empty first listing, a successful POST /ai_bucket and a second
\* listing that has an AIProcess queue, whose id is returned
C13_Witness ==
    /\ rq.pc = "returned"
    /\ rq.gets = 2
    /\ rq.opens = 1
    /\ rq.listing = 2
    /\ rq.ret # NoQueueId

\* C14: every request of upload_file, _wait_for_job_completion,
\* _get_queue_id and _submit_ci_job carries an authorization generated for
\* that request: no generated authorization is sent with a second request.
C14_FreshTokenPerCall ==
    /\ up.tokenUses <= 1
    /\ poll.tokenUses <= 1
    /\ rq.tokenUses <= 1
    /\ sub.tokenUses <= 1

C16_Any2xxReturnsTrue ==
    up.okAt > 0 =>
        /\ up.pc = "returned"
        /\ up.ret = "true"
        /\ up.puts = up.okAt
        /\ up.sleeps = up.sleepsAtOk

\* C17: from the moment its id is handed to the client a job has a progress
\* record, so that a reader asking for a handed-out id finds a record; the
\* record of a completed job has had the statuses pending, processing,
\* completed in this order and holds a non-empty result video path.
C17_PendingProcessingCompleted ==
    /\ \A j \in JobIds : tjob[j].pc # "none" => table[j] # NoRecord
    /\ (held.kind = "one" /\ held.handed) =>
          \A j \in held.ids : held.at[j] # NoRecord
    /\ \A j \in JobIds : table[j].status = "completed" =>
          /\ tjob[j].seen = <<"pending", "processing", "completed">>
          /\ table[j].result # <<>>
          /\ table[j].result.processed_video # ""

\* C18: the result of a completed job's progress record has the key
\* background_mode, 'Combination' when a background image was supplied for
\* the job and 'Foreground' when none was.
C18_ResultReportsBackgroundMode ==
    \A j \in JobIds : table[j].status = "completed" =>
        /\ "background_mode" \in DOMAIN table[j].result
        /\ table[j].result.background_mode =
              (IF tjob[j].background THEN "Combination" ELSE "Foreground")

\* C19: what get_job_progress or get_all_jobs returned shows the reader the
\* same records as at the return, whatever is written to the table
\* afterwards, and no record shows the step text of the failure update
\* without the status failed.
C19_ReaderSeesSnapshot ==
    /\ held # NoHeld => HeldView = HeldAtReturn
    /\ \A j \in JobIds : table[j].current_step = "failed" => table[j].status = "failed"

\* C20: a step changes the record of job j only when it is a step of the
\* processing of job j, and the record of a job that has none comes into
\* being only by the initialisation in process_teacher_video_background,
\* never by _update_progress.
C20_SingleWriterPerRecord ==
    [][\A j \in JobIds : table'[j] # table[j] =>
            /\ lastWriter' = j
            /\ table[j] = NoRecord => lastOp' = "create"]_vars

\* _update_progress was called for a job without a record while another
\* job has been taken through all its writes
C20_Witness ==
    /\ lastOp = "_update_progress"
    /\ table[lastWriter] = NoRecord
    /\ \E k \in JobIds : k # lastWriter /\ table[k].status = "completed"

\* C21: however many requests arrive, the number of jobs whose record has
\* status "processing" never exceeds the configured limit, here the larger
\* of the two limits of the settings, MAX_CONCURRENT_JOBS.
C21_BoundedConcurrency ==
    Cardinality(ProcessingJobs) <= MAX_CONCURRENT_JOBS

\* the absolute value of an integer
Abs(n) == IF n < 0 THEN -n ELSE n

\* C22: the plan is targetHeight = min(2*floor(H*r/2), H - top - bottom),
\* targetWidth = min(2*floor(H*r*aspect(bbox)/2), W - 2*round(H*safeRatio))
\* and offsetX = (W - targetWidth)/2; a 1920x1080 background with r = 0.5,
\* margins 80/80, safe ratio 0.08 and a square box gives 540 x 540 at
\* offsetX 690, and with r = 0.95 the height is at most 920.
C22_PlanFormula ==
    geo.pc = "done" =>
        /\ geo.h = Min(2 * ((geo.H * geo.ratio) \div 200),
                       geo.H - geo.top_margin - geo.bottom_margin)
        /\ geo.w = Min(2 * ((geo.H * geo.ratio * geo.bbox[1])
                               \div (200 * geo.bbox[2])),
                       geo.W - 2 * ((2 * geo.H * geo.safe_ratio + 100) \div 200))
        /\ geo.x = (geo.W - geo.w) \div 2
        /\ (/\ geo.W = 1920 /\ geo.H = 1080 /\ geo.ratio = 50
            /\ geo.top_margin = 80 /\ geo.bottom_margin = 80
            /\ geo.safe_ratio = 8 /\ geo.bbox[1] = geo.bbox[2])
           => geo.h = 540 /\ geo.w = 540 /\ geo.x = 690
        /\ (/\ geo.W = 1920 /\ geo.H = 1080 /\ geo.ratio = 95
            /\ geo.top_margin = 80 /\ geo.bottom_margin = 80)
           => geo.h <= 920

\* C23: whatever the background, ratio, box and margins, the width of the
\* plan is at most W - 2 * safe margin and its height at most
\* H - top margin - bottom margin.
C23_PlanWithinMargins ==
    geo.pc = "done" =>
        /\ geo.w <= geo.W - 2 * safe_lr(geo.H, geo.safe_ratio)
        /\ geo.h <= geo.H - geo.top_margin - geo.bottom_margin

\* a plan in which both limits are the value chosen
C23_Witness ==
    /\ geo.pc = "done"
    /\ geo.w = geo.W - 2 * safe_lr(geo.H, geo.safe_ratio)
    /\ geo.h = geo.H - geo.top_margin - geo.bottom_margin
    /\ geo.h < base_h(geo.H, geo.ratio)
    /\ geo.w < base_w(geo.H, geo.ratio,
                      IF geo.reading = "main" THEN geo.crop
                      ELSE <<geo.W, geo.H>>)

\* C24: the width and the height of the plan are even, also when a limit
\* is the value chosen.
C24_EvenDimensions ==
    geo.pc = "done" => geo.w % 2 = 0 /\ geo.h % 2 = 0

\* C25: when a limit is the value chosen for the width or for the height,
\* width / height is still the aspect of the bounding box, each dimension
\* being off by at most the two pixels of the even rounding.
C25_ClampKeepsAspect ==
    (/\ geo.pc = "done"
     /\ \/ geo.w = geo.W - 2 * safe_lr(geo.H, geo.safe_ratio)
        \/ geo.h = geo.H - geo.top_margin - geo.bottom_margin)
    => Abs(geo.w * geo.bbox[2] - geo.h * geo.bbox[1])
          <= 2 * (geo.bbox[1] + geo.bbox[2])

\* C26: for a bounding box of no width or no height the crop that is asked
\* for is the whole foreground frame, never a crop of no area.
C26_DegenerateBoxFallsBack ==
    (/\ geo.pc = "scale"
     /\ geo.bbox[1] = 0 \/ geo.bbox[2] = 0)
    => /\ geo.crop = ForegroundSize
       /\ geo.crop[1] > 0 /\ geo.crop[2] > 0

C28_DownloadPolicyOfUpload ==
    /\ (dl.pc = "returned" /\ dl.ret = "false")
         => \/ dl.fatalAt > 0
            \/ dl.gets = Len(dl.available_domains) * max_retries
    /\ dl.fatalAt > 0 => dl.gets = dl.fatalAt /\ dl.ret # "true"

\* in the sequence s every a comes before every b
Precedes(s, a, b) ==
    \A i \in 1..Len(s), j \in 1..Len(s) : (s[i] = a /\ s[j] = b) => i < j

\* C29: the regional domain (myqcloud.com) comes before the backup domain
\* (tencentcos.cn) in the list the reachability probe resolves, and within
\* every round of a transfer it is attempted first.
C29_RegionalBeforeBackup ==
    /\ Precedes(up.available_domains, "myqcloud.com", "tencentcos.cn")
    /\ Precedes(up.tried, "myqcloud.com", "tencentcos.cn")
    /\ Precedes(dl.available_domains, "myqcloud.com", "tencentcos.cn")

\* C30: the canonical URI that a transfer signs is its object key
\* percent-escaped once and is the path of the URL that is requested, for
\* every object key: the authorization of the transfer is the one a
\* signature over that path gives.
C30_SignedUriIsRequestedPath ==
    (lastSign # NoSign /\ lastSign.signer = "transfer") =>
        /\ lastSign.url.path = <<"/">> \o quote(lastSign.object_key)
        /\ lastSign.token =
             Authorization(lastSign.cred[1], lastSign.cred[2],
                           Lower(lastSign.method), lastSign.url.path,
                           Lower(lastSign.host), lastSign.now)

\* C31: a poll call always returns: no status query is started once the
\* elapsed time has reached the budget, every iteration that does not end
\* the call costs at least 5 s, so a call makes at most ceil(budget / 5)
\* queries, and a call whose budget ran out returns the timeout outcome.
C31_PollReturns ==
    /\ [](poll.queries <= (poll.budget + 4) \div 5)
    /\ [](poll.elapsed >= 5 * poll.sleeps)
    /\ [][poll.elapsed >= poll.budget => poll'.queries = poll.queries]_vars
    /\ []((poll.pc = "returned" /\ poll.cause \notin {"Success", "Failed"})
            => (poll.cause = "Timeout" /\ poll.elapsed >= poll.budget))
    /\ (poll.pc = "loop" ~> poll.pc = "returned")

\* a call that made the largest number of queries and returned on the
\* budget
C31_Witness ==
    /\ poll.pc = "returned"
    /\ poll.cause = "Timeout"
    /\ poll.queries = (poll.budget + 4) \div 5

\* C32: polling never busy-spins: an iteration after which the loop goes
\* on has slept, for at least 10 s after a Submitted / Running answer and
\* at least 5 s after any other answer, so between two consecutive status
\* queries of one call there is a sleep.
C32_SleepBetweenQueries ==
    /\ [](poll.pc = "loop" => poll.sleeps = poll.queries)
    /\ [][(poll.pc = "loop" /\ poll'.pc = "loop"
             /\ poll'.queries = poll.queries + 1)
          => /\ poll'.sleeps = poll.sleeps + 1
             /\ poll'.elapsed - poll.elapsed >=
                  (IF poll'.last \in {"Submitted", "Running"} THEN 10 ELSE 5)]_vars

\* a call that is about to make its third query, after a Running answer
\* and an irregular one
C32_Witness ==
    /\ poll.pc = "loop"
    /\ poll.queries = 2
    /\ poll.last = "irregular"
    /\ poll.elapsed = 15

\* C33: once the cancellation of the job was asked for, the poll call
\* makes at most one more status query and then stops without reporting
\* Success or Failed.
C33_CancelStopsPolling ==
    poll.cancelAt >= 0 =>
        /\ poll.queries <= poll.cancelAt + 1
        /\ poll.pc = "returned" => poll.cause \notin {"Success", "Failed"}

\* C34: after a POST /jobs failed, GET /ai_queue is sent again before the
\* next POST /jobs of that submission: the second POST was preceded by
\* more queue listings than the first.
C34_RediscoversBeforeRetry ==
    Len(sub.getsAtPost) = 2 => sub.getsAtPost[2] > sub.getsAtPost[1]

\* C35: the subject laid over the background stays inside the allowed
\* area: offsetX >= safe margin, offsetX + width <= W - safe margin,
\* offsetY >= top margin and offsetY + height <= H - bottom margin, also
\* for unequal top and bottom margins, with offsetY = top + ((H - top -
\* bottom) - height)/2 + (bottom - top)/2.
C35_SubjectInsideAllowedArea ==
    geo.pc = "done" =>
        /\ geo.x >= safe_lr(geo.H, geo.safe_ratio)
        /\ geo.x + geo.w <= geo.W - safe_lr(geo.H, geo.safe_ratio)
        /\ geo.y >= geo.top_margin
        /\ geo.y + geo.h <= geo.H - geo.bottom_margin

\* C36: two jobs in flight never share an object key or an output path:
\* the background key, input key, output key and downloaded file path of
\* one job differ from those of every other job whose background removal
\* has not returned, also when both started within one clock second.
C36_JobsShareNoNames ==
    \A j \in JobIds, k \in JobIds :
        (/\ j # k
         /\ kjob[j].pc \in {"background", "processing"}
         /\ kjob[k].pc \in {"background", "processing"})
        => /\ kjob[j].background_key = NoKey
              \/ kjob[j].background_key # kjob[k].background_key
           /\ kjob[j].input_key = NoKey
              \/ kjob[j].input_key # kjob[k].input_key
           /\ kjob[j].output_key = NoKey
              \/ kjob[j].output_key # kjob[k].output_key
           /\ kjob[j].output_path = NoKey
              \/ kjob[j].output_path # kjob[k].output_path

\* C37: every record of the job-progress table has status processing,
\* completed or failed; a completed record has progress 100 and a result
\* holding a processed video path; a failed record has a non-empty error
\* and no result.
C37_RecordShape ==
    \A j \in JobIds : table[j] # NoRecord =>
        /\ table[j].status \in {"processing", "completed", "failed"}
        /\ table[j].status = "completed" =>
              /\ table[j].progress = 100
              /\ table[j].result # <<>>
              /\ table[j].result.processed_video # ""
        /\ table[j].status = "failed" =>
              /\ table[j].error # <<>>
              /\ table[j].result = <<>>

\* one job completed while another failed after its background removal
C37_Witness ==
    /\ table[1].status = "completed"
    /\ table[2].status = "failed"
    /\ table[2].current_step = "failed"
    /\ table[2].progress = 0

\* C38: completed and failed are terminal: once the record of a job has
\* status completed or failed, no step changes its status, progress,
\* result or error.
C38_TerminalStatusIsFinal ==
    [][\A j \in JobIds :
          table[j].status \in {"completed", "failed"} =>
              /\ table'[j].status = table[j].status
              /\ table'[j].progress = table[j].progress
              /\ table'[j].result = table[j].result
              /\ table'[j].error = table[j].error]_vars

\* both jobs have ended, one completed and one failed on its duration, and
\* a reader has fetched the table afterwards
C38_Witness ==
    /\ table[1].status = "failed" /\ table[1].error = <<"video too long">>
    /\ table[2].status = "completed"
    /\ tjob[1].pc = "done" /\ tjob[2].pc = "done"
    /\ held # NoHeld /\ held.kind = "all"
    /\ held.at = table

\* C39: a batch with status completed has processed every video accepted
\* at upload: completed_files = total_files and failed_files = 0.
C39_CompletedBatchIsWhole ==
    batch.status = "completed" =>
        /\ batch.completed_files = batch.total_files
        /\ batch.failed_files = 0

\* C40: with a Redis URL configured, at most one task at a time is inside
\* the critical section guarded by the key, however long a holder stays
\* inside.
C40_MutualExclusion ==
    rlock.redis => Cardinality({t \in TaskIds : rlock.pc[t] = "inside"}) <= 1

====
